---------------------------- MODULE Spec2Model ----------------------------
(***************************************************************************)
(* A model of the Z402 Python SDK core (packages/python-sdk/z402):         *)
(*   - utils/budget.py   BudgetManager, the time-windowed spend ledger     *)
(*   - utils/retry.py    is_retryable_error and retry_with_backoff         *)
(*   - utils/http.py     AsyncHTTPClient._handle_response / request        *)
(*   - utils/webhook.py  verify_webhook and construct_webhook_signature    *)
(*   - middleware.py     Z402Middleware, the payment gate of an application*)
(*                                                                         *)
(* The specifications share the module's variables:                        *)
(*   Spec           concurrent callers of can_spend and record_spend       *)
(*   SpecAmounts    the same callers, with amounts of either sign          *)
(*   SpecLedger     concurrent callers of every BudgetManager operation    *)
(*   SpecLedgerFair the same callers under a fair scheduler                *)
(*   SpecPay        concurrent Z402Client.pay calls                        *)
(*   SpecRetry      one wrapped operation, attempt by attempt              *)
(*   SpecBackoff    one request under up to MaxBackoffRetries retries      *)
(*   SpecResponses  one request over every response of the model           *)
(*   SpecRequest    one request and the facilitator it reaches             *)
(*   SpecCancel     one request its caller may cancel during a wait        *)
(*   SpecSession    the client as a context manager, and one request       *)
(*   SpecLoop       two requests and a ledger caller on one event loop     *)
(*   SpecHeaders    the headers of the requests of one client              *)
(*   SpecWebhook    verify_webhook over bounded inputs                     *)
(*   SpecReplay     one delivery verified again and again                  *)
(*   SpecGate       requests to an application behind the middleware       *)
(* Each leaves the variables it does not use at their initial values.      *)
(*                                                                         *)
(* Money is counted in whole units (Decimal arithmetic is exact, so are    *)
(* the integers), time in hours for the ledger and in seconds for the      *)
(* webhook clock.  Text is a sequence of one-character strings.            *)
(***************************************************************************)
EXTENDS Integers, Sequences, FiniteSets, TLC

VARIABLES
    \* ---- BudgetManager (utils/budget.py) ----
    daily_limit,        \* self.daily_limit
    hourly_limit,       \* self.hourly_limit (None when not configured)
    transaction_limit,  \* self.transaction_limit (None when not configured)
    _transactions,      \* self._transactions, the ledger
    _lock,              \* self._lock: Free, or the caller holding it
    now,                \* datetime.now(), in hours
    ticks,              \* how often the clock has advanced
    pc,                 \* per caller: position in the coroutine it runs
    op,                 \* per caller: the method it called
    spend_amount,       \* per caller: the amount argument
    result,             \* per caller: what the call returned or raised
    checked,            \* per caller: the ledger the affordability check read
    calls,              \* calls started so far, over all callers
    \* ---- BudgetManager's reads and reset_history (utils/budget.py) ----
    reading,            \* per caller: the read it is in (daily, hourly, history)
    hours,              \* per caller: the hours argument of get_transaction_history
    daily_spent,        \* per caller: what get_daily_spent returned
    hourly_spent,       \* per caller: what get_hourly_spent returned
    stats,              \* per caller: what get_statistics returned
    history,            \* per caller: what get_transaction_history returned
    reads,              \* per caller: the ledger and the time each read of the call saw
    \* ---- retry_with_backoff (utils/retry.py) around one operation ----
    max_retries,        \* the decorator's max_retries
    max_delay,          \* the decorator's max_delay
    attempt,            \* the loop variable of wrapper
    delay,              \* wrapper's delay
    last_error,         \* wrapper's last_error
    response,           \* the response of the latest attempt, if it had one
    rpc,                \* wrapper's position: call, sleep, returned, raised
    attempts,           \* how often the operation has been called
    errors,             \* the errors the attempts raised, in order
    sleeps,             \* the waits taken, in order
    \* ---- one request of an AsyncHTTPClient and the facilitator it reaches ----
    http_max_retries,   \* AsyncHTTPClient.max_retries, as constructed
    sends,              \* how many attempts have put their request on the wire
    processed,          \* the latest attempt whose request the facilitator took
    applied,            \* how often the facilitator applied the request's effect
    \* ---- the client's context and its HTTP session (utils/http.py) ----
    ctx,                \* `async with client:` before, inside, exited or raised
    _session,           \* self._session: none, open or closed
    sessions,           \* how many ClientSessions the client has created
    \* ---- a second request in flight on the same event loop ----
    parked,             \* the wrapper state of the request that is not running
    active,             \* which of the two requests the wrapper variables hold
    \* ---- AsyncHTTPClient._build_headers (utils/http.py) ----
    api_key,            \* self.api_key
    custom_headers,     \* the custom_headers argument of the latest call
    request_headers,    \* what the latest call returned
    \* ---- Z402Client.pay (client.py), one call per caller ----
    has_budget,         \* whether self.budget is a BudgetManager
    check_budget,       \* per caller: the check_budget argument
    pay_pc,             \* per caller: position in pay
    pay_outcome,        \* per caller: pending, returned or raised
    pay_error,          \* per caller: the error pay raised
    created,            \* per caller: whether its payment intent was created
    submitted,          \* the payments submitted to the facilitator, in order
    \* ---- one webhook delivery (utils/webhook.py) ----
    w_now,              \* int(time.time()) at the receiver, in seconds
    w_advances,         \* how often that clock has advanced
    header,             \* the z402-signature header, as it reaches the receiver
    signed,             \* what the sender signed: payload, secret, timestamp
    tamper,             \* how the header was altered in transit, if it was
    v_payload,          \* verify_webhook's latest call: its payload,
    v_secret,           \*   its secret,
    v_tolerance,        \*   its tolerance,
    v_now,              \*   the time of the call
    v_result,           \*   and its outcome
    \* ---- Z402Middleware (middleware.py), one request at a time ----
    protected_paths,    \* self.protected_paths
    mw_amount,          \* self.amount, the required amount
    mw_pc,              \* __call__'s position: idle, verify, done
    mw_request,         \* the request: its path and z402-payment-intent header
    mw_reply,           \* what the verification call came back with
    mw_response,        \* what __call__ returned, or that it raised
    mw_called,          \* whether call_next was invoked for the request
    z402_payment,       \* request.state.z402_payment
    mw_requests,        \* requests handled so far
    \* ---- an observer of the receiver: one of the calls it has handled ----
    v_earlier           \* an earlier call of verify_webhook, as it went

budget_vars == <<daily_limit, hourly_limit, transaction_limit, _transactions,
                 _lock, now, ticks, pc, op, spend_amount, result, checked,
                 calls>>

read_vars == <<reading, hours, daily_spent, hourly_spent, stats, history,
               reads>>

retry_vars == <<max_retries, max_delay, attempt, delay, last_error, response,
                rpc, attempts, errors, sleeps>>

webhook_vars == <<w_now, w_advances, header, signed, tamper, v_payload,
                  v_secret, v_tolerance, v_now, v_result>>

pipeline_vars == <<http_max_retries, sends, processed, applied>>

session_vars == <<ctx, _session, sessions>>

loop_vars == <<parked, active>>

header_vars == <<api_key, custom_headers, request_headers>>

replay_vars == <<v_earlier>>

middleware_vars == <<protected_paths, mw_amount, mw_pc, mw_request, mw_reply,
                     mw_response, mw_called, z402_payment, mw_requests>>

pay_vars == <<has_budget, check_budget, pay_pc, pay_outcome, pay_error,
              created, submitted>>

vars == <<budget_vars, retry_vars, webhook_vars, pipeline_vars, pay_vars,
          header_vars, read_vars, loop_vars, session_vars, replay_vars,
    middleware_vars>>

\* What the steps of one part leave alone.
not_budget == <<retry_vars, webhook_vars, pipeline_vars, pay_vars,
                header_vars, read_vars, loop_vars, session_vars, replay_vars,
    middleware_vars>>
not_retry == <<budget_vars, webhook_vars, pipeline_vars, pay_vars,
               header_vars, read_vars, loop_vars, session_vars, replay_vars,
    middleware_vars>>
not_webhook == <<budget_vars, retry_vars, pipeline_vars, pay_vars,
                 header_vars, read_vars, loop_vars, session_vars, replay_vars,
    middleware_vars>>
not_pipeline == <<budget_vars, retry_vars, webhook_vars, pay_vars,
                  header_vars, read_vars, loop_vars, session_vars, replay_vars,
    middleware_vars>>
not_headers == <<budget_vars, retry_vars, webhook_vars, pipeline_vars,
                 pay_vars, read_vars, loop_vars, session_vars, replay_vars,
    middleware_vars>>
\* A read or a reset drives the caller's position in the BudgetManager.
not_ledger == <<retry_vars, webhook_vars, pipeline_vars, pay_vars,
                header_vars, loop_vars, session_vars, replay_vars,
    middleware_vars>>
\* A step of pay drives the caller's BudgetManager call as well.
not_client == <<retry_vars, webhook_vars, pipeline_vars, header_vars,
                read_vars, loop_vars, session_vars, replay_vars,
    middleware_vars>>

\* A handled call that the observer notes.
not_delivery == <<budget_vars, retry_vars, pipeline_vars, pay_vars,
                  header_vars, read_vars, loop_vars, session_vars,
                  middleware_vars>>
\* What a step of the middleware leaves alone.
not_middleware == <<budget_vars, retry_vars, webhook_vars, pipeline_vars,
                    pay_vars, header_vars, read_vars, loop_vars, session_vars,
                    replay_vars>>

-----------------------------------------------------------------------------
(* Bounds of the model *)

NumCallers == 2
MaxCalls == 2
MaxTicks == 2
MaxRetries == 2
MaxAdvances == 3
MaxBackoffRetries == 7
MaxRequests == 2
\* int(time.time()) when the model starts.
Epoch == 1000

-----------------------------------------------------------------------------
(* utils/budget.py *)

None == -1
Free == 0

HOUR == 1
DAY == 24

Callers == 1..NumCallers
Amounts == {1, 2}
DailyLimits == {3}
HourlyLimits == {None, 0, 2}
TransactionLimits == {None, 0, 1}
TickSteps == {HOUR, DAY}

\* Python truthiness of an Optional[Decimal]: None and Decimal(0) are false.
Truthy(limit) == limit # None /\ limit # 0

\* sum(Decimal(tx["amount"]) for tx in txs if tx["timestamp"] >= start)
RECURSIVE WindowSum(_, _)
WindowSum(txs, start) ==
    IF txs = <<>> THEN 0
    ELSE (IF Head(txs).timestamp >= start THEN Head(txs).amount ELSE 0)
         + WindowSum(Tail(txs), start)

\* can_spend, line 65: the per-transaction check, made before the lock is taken.
OverTransactionLimit(amount) ==
    Truthy(transaction_limit) /\ amount > transaction_limit

\* can_spend, lines 69-94: the body of the critical section.
WithinWindows(txs, t, amount) ==
    /\ ~(WindowSum(txs, t - DAY) + amount > daily_limit)
    /\ (Truthy(hourly_limit) =>
            ~(WindowSum(txs, t - HOUR) + amount > hourly_limit))

\* The record record_spend appends.
SpendRecord(amount, id, t) ==
    [amount |-> amount, transaction_id |-> id, timestamp |-> t]

BudgetManagerInit ==
    /\ daily_limit \in DailyLimits
    /\ hourly_limit \in HourlyLimits
    /\ transaction_limit \in TransactionLimits
    /\ _lock = Free
    /\ _transactions = <<>>

InitBudget ==
    /\ BudgetManagerInit
    /\ now = 0
    /\ ticks = 0
    /\ pc = [c \in Callers |-> "idle"]
    /\ op = [c \in Callers |-> "none"]
    /\ spend_amount = [c \in Callers |-> 0]
    /\ result = [c \in Callers |-> "none"]
    /\ checked = [c \in Callers |-> <<>>]
    /\ calls = 0

limits == <<daily_limit, hourly_limit, transaction_limit>>

\* can_spend(amount) or record_spend(amount, ...) is entered.  The
\* per-transaction check of can_spend (lines 62-66) touches no shared state
\* and is part of this step.
Enter(c, method, amount) ==
    /\ op' = [op EXCEPT ![c] = method]
    /\ spend_amount' = [spend_amount EXCEPT ![c] = amount]
    /\ checked' = [checked EXCEPT ![c] = <<>>]
    /\ IF OverTransactionLimit(amount)
       THEN IF method = "can_spend"
            THEN /\ pc' = [pc EXCEPT ![c] = "done"]
                 /\ result' = [result EXCEPT ![c] = "False"]
            ELSE /\ pc' = [pc EXCEPT ![c] = "rs_raise_lock"]
                 /\ result' = [result EXCEPT ![c] = "pending"]
       ELSE /\ pc' = [pc EXCEPT ![c] = "cs_lock"]
            /\ result' = [result EXCEPT ![c] = "pending"]

\* A caller, idle or back from its last call, starts can_spend(amount) or
\* record_spend(amount, ...).
Call(c, method, amount) ==
    /\ pc[c] \in {"idle", "done"}
    /\ calls < MaxCalls
    /\ calls' = calls + 1
    /\ Enter(c, method, amount)
    /\ UNCHANGED <<limits, _transactions, _lock, now, ticks>>
    /\ UNCHANGED not_budget

\* `async with self._lock:` of can_spend (line 68).
CanSpendAcquire(c) ==
    /\ pc[c] = "cs_lock"
    /\ _lock = Free
    /\ _lock' = c
    /\ pc' = [pc EXCEPT ![c] = "cs_body"]
    /\ UNCHANGED <<limits, _transactions, now, ticks, op, spend_amount,
                   result, checked, calls>>
    /\ UNCHANGED not_budget

\* Where record_spend goes once can_spend has returned (line 113).
AfterCheck(c, ok) ==
    IF op[c] = "can_spend" THEN "done"
    ELSE IF ok THEN "rs_lock" ELSE "rs_raise_lock"

\* A can_spend that reserves what it finds affordable: it appends the record
\* itself.
CanSpendBodyReserving(c) ==
    /\ pc[c] = "cs_body"
    /\ _lock = c
    /\ LET ok == WithinWindows(_transactions, now, spend_amount[c]) IN
        /\ pc' = [pc EXCEPT ![c] = AfterCheck(c, ok)]
        /\ result' = [result EXCEPT ![c] =
                IF op[c] = "can_spend"
                THEN (IF ok THEN "True" ELSE "False") ELSE @]
        /\ _transactions' =
                IF ok THEN Append(_transactions,
                                  SpendRecord(spend_amount[c], c, now))
                ELSE _transactions
    /\ checked' = [checked EXCEPT ![c] = _transactions]
    /\ _lock' = Free
    /\ UNCHANGED <<limits, now, ticks, op, spend_amount, calls>>
    /\ UNCHANGED not_budget

\* The critical section of can_spend (lines 69-94) and the release of the lock.
CanSpendBody(c) ==
    /\ pc[c] = "cs_body"
    /\ _lock = c
    /\ LET ok == WithinWindows(_transactions, now, spend_amount[c]) IN
        /\ pc' = [pc EXCEPT ![c] = AfterCheck(c, ok)]
        /\ result' = [result EXCEPT ![c] =
                IF op[c] = "can_spend"
                THEN (IF ok THEN "True" ELSE "False") ELSE @]
    /\ checked' = [checked EXCEPT ![c] = _transactions]
    /\ _lock' = Free
    /\ UNCHANGED <<limits, _transactions, now, ticks, op, spend_amount,
                   calls>>
    /\ UNCHANGED not_budget

\* record_spend, line 117: get_daily_spent takes the lock (line 135).
RaiseAcquire(c) ==
    /\ pc[c] = "rs_raise_lock"
    /\ _lock = Free
    /\ _lock' = c
    /\ pc' = [pc EXCEPT ![c] = "rs_raise"]
    /\ UNCHANGED <<limits, _transactions, now, ticks, op, spend_amount,
                   result, checked, calls>>
    /\ UNCHANGED not_budget

\* A rejection that leaves record_spend with the lock still held.
RaiseBudgetExceededHoldingLock(c) ==
    /\ pc[c] = "rs_raise"
    /\ _lock = c
    /\ result' = [result EXCEPT ![c] = "BudgetExceededError"]
    /\ pc' = [pc EXCEPT ![c] = "done"]
    /\ UNCHANGED <<limits, _transactions, _lock, now, ticks, op, spend_amount,
                   checked, calls>>
    /\ UNCHANGED not_budget

\* record_spend, lines 114-118: get_daily_spent returns and the error is raised.
RaiseBudgetExceeded(c) ==
    /\ pc[c] = "rs_raise"
    /\ _lock = c
    /\ _lock' = Free
    /\ result' = [result EXCEPT ![c] = "BudgetExceededError"]
    /\ pc' = [pc EXCEPT ![c] = "done"]
    /\ UNCHANGED <<limits, _transactions, now, ticks, op, spend_amount,
                   checked, calls>>
    /\ UNCHANGED not_budget

\* record_spend, line 120: the second `async with self._lock:`.
RecordSpendAcquire(c) ==
    /\ pc[c] = "rs_lock"
    /\ _lock = Free
    /\ _lock' = c
    /\ pc' = [pc EXCEPT ![c] = "rs_append"]
    /\ UNCHANGED <<limits, _transactions, now, ticks, op, spend_amount,
                   result, checked, calls>>
    /\ UNCHANGED not_budget

\* A ledger that keeps its newest record first.
RecordSpendPrepend(c) ==
    /\ pc[c] = "rs_append"
    /\ _lock = c
    /\ _transactions' = <<SpendRecord(spend_amount[c], c, now)>>
                            \o _transactions
    /\ _lock' = Free
    /\ result' = [result EXCEPT ![c] = "ok"]
    /\ pc' = [pc EXCEPT ![c] = "done"]
    /\ UNCHANGED <<limits, now, ticks, op, spend_amount, checked, calls>>
    /\ UNCHANGED not_budget

\* An append that evicts the records older than the daily window.
RecordSpendAppendEvicting(c) ==
    /\ pc[c] = "rs_append"
    /\ _lock = c
    /\ _transactions' =
            Append(SelectSeq(_transactions,
                             LAMBDA tx : tx.timestamp >= now - DAY),
                   SpendRecord(spend_amount[c], c, now))
    /\ _lock' = Free
    /\ result' = [result EXCEPT ![c] = "ok"]
    /\ pc' = [pc EXCEPT ![c] = "done"]
    /\ UNCHANGED <<limits, now, ticks, op, spend_amount, checked, calls>>
    /\ UNCHANGED not_budget

\* record_spend, lines 121-126: the append, and the release of the lock.
RecordSpendAppend(c) ==
    /\ pc[c] = "rs_append"
    /\ _lock = c
    /\ _transactions' = Append(_transactions,
                               SpendRecord(spend_amount[c], c, now))
    /\ _lock' = Free
    /\ result' = [result EXCEPT ![c] = "ok"]
    /\ pc' = [pc EXCEPT ![c] = "done"]
    /\ UNCHANGED <<limits, now, ticks, op, spend_amount, checked, calls>>
    /\ UNCHANGED not_budget

\* datetime.now() moves on.
Tick(d) ==
    /\ ticks < MaxTicks
    /\ ticks' = ticks + 1
    /\ now' = now + d
    /\ UNCHANGED <<limits, _transactions, _lock, pc, op, spend_amount,
                   result, checked, calls>>
    /\ UNCHANGED not_budget

BudgetNext ==
    \/ \E c \in Callers, a \in Amounts : Call(c, "record_spend", a)
    \/ \E c \in Callers, a \in Amounts : Call(c, "can_spend", a)
    \/ \E c \in Callers : CanSpendAcquire(c)
    \/ \E c \in Callers : CanSpendBody(c)
    \/ \E c \in Callers : RaiseAcquire(c)
    \/ \E c \in Callers : RaiseBudgetExceeded(c)
    \/ \E c \in Callers : RecordSpendAcquire(c)
    \/ \E c \in Callers : RecordSpendAppend(c)
    \/ \E d \in TickSteps : Tick(d)

-----------------------------------------------------------------------------
(* Text: a str is a sequence of one-character strings *)

Digits == {"0", "1", "2", "3", "4", "5", "6", "7", "8", "9"}

DigitVal(ch) ==
    CASE ch = "0" -> 0 [] ch = "1" -> 1 [] ch = "2" -> 2 [] ch = "3" -> 3
      [] ch = "4" -> 4 [] ch = "5" -> 5 [] ch = "6" -> 6 [] ch = "7" -> 7
      [] ch = "8" -> 8 [] ch = "9" -> 9

DigitChar(d) ==
    CASE d = 0 -> "0" [] d = 1 -> "1" [] d = 2 -> "2" [] d = 3 -> "3"
      [] d = 4 -> "4" [] d = 5 -> "5" [] d = 6 -> "6" [] d = 7 -> "7"
      [] d = 8 -> "8" [] d = 9 -> "9"

AllDigits(text) == text # <<>> /\ \A i \in 1..Len(text) : text[i] \in Digits

RECURSIVE DigitsValue(_)
DigitsValue(text) ==
    IF text = <<>> THEN 0
    ELSE 10 * DigitsValue(SubSeq(text, 1, Len(text) - 1))
         + DigitVal(text[Len(text)])

\* Whether int(text) returns: an optional sign and decimal digits.  (Python
\* also strips white space and allows single underscores between digits; the
\* texts of this model hold neither.)
IsIntText(text) ==
    IF text # <<>> /\ text[1] \in {"-", "+"}
    THEN AllDigits(Tail(text))
    ELSE AllDigits(text)

\* int(text), where IsIntText(text).
ParseInt(text) ==
    IF text[1] = "-" THEN 0 - DigitsValue(Tail(text))
    ELSE IF text[1] = "+" THEN DigitsValue(Tail(text))
    ELSE DigitsValue(text)

RECURSIVE NatToStr(_)
NatToStr(n) ==
    IF n < 10 THEN <<DigitChar(n)>>
    ELSE NatToStr(n \div 10) \o <<DigitChar(n % 10)>>

\* str(n), f"{n}"
IntToStr(n) == IF n < 0 THEN <<"-">> \o NatToStr(0 - n) ELSE NatToStr(n)

-----------------------------------------------------------------------------
(* exceptions.py *)

NoneStr == "None"

\* An exception: its class and the attributes the SDK reads from it.
Error(cls, status_code, retry_after, amount, resource) ==
    [cls |-> cls, status_code |-> status_code, retry_after |-> retry_after,
     amount |-> amount, resource |-> resource]

NoError == Error("none", None, None, NoneStr, NoneStr)

AuthenticationError == Error("AuthenticationError", 401, None, NoneStr, NoneStr)
InvalidRequestError == Error("InvalidRequestError", 400, None, NoneStr, NoneStr)
NotFoundError == Error("NotFoundError", 404, None, NoneStr, NoneStr)
RateLimitError(retry_after) ==
    Error("RateLimitError", 429, retry_after, NoneStr, NoneStr)
PaymentRequiredError(amount, resource) ==
    Error("PaymentRequiredError", 402, None, amount, resource)
APIError(status_code) == Error("APIError", status_code, None, NoneStr, NoneStr)
NetworkError == Error("NetworkError", 0, None, NoneStr, NoneStr)
WebhookVerificationError ==
    Error("WebhookVerificationError", 400, None, NoneStr, NoneStr)
BudgetExceededError == Error("BudgetExceededError", None, None, NoneStr, NoneStr)
WalletError == Error("WalletError", None, None, NoneStr, NoneStr)
\* The base class, raised directly with any status.
Z402Error(status_code) == Error("Z402Error", status_code, None, NoneStr, NoneStr)
\* An exception that is no Z402Error (ValueError, AttributeError, ...).
PythonError(cls) == Error(cls, None, None, NoneStr, NoneStr)

Z402Classes ==
    {"Z402Error", "AuthenticationError", "InvalidRequestError",
     "NotFoundError", "RateLimitError", "PaymentRequiredError", "APIError",
     "NetworkError", "WebhookVerificationError", "BudgetExceededError",
     "WalletError"}

\* isinstance(error, Z402Error)
IsZ402Error(error) == error.cls \in Z402Classes

-----------------------------------------------------------------------------
(* utils/retry.py *)

\* A classifier that takes 500 itself for no server error.
is_retryable_error_above_500(error) ==
    IF error.cls = "NetworkError" THEN TRUE
    ELSE IF error.cls = "RateLimitError" THEN TRUE
    ELSE IF /\ IsZ402Error(error)
            /\ error.status_code # None /\ error.status_code # 0
            /\ 500 < error.status_code /\ error.status_code < 600
         THEN TRUE
    ELSE FALSE

is_retryable_error(error) ==
    IF error.cls = "NetworkError" THEN TRUE
    ELSE IF error.cls = "RateLimitError" THEN TRUE
    ELSE IF /\ IsZ402Error(error)
            /\ error.status_code # None /\ error.status_code # 0
            /\ 500 <= error.status_code /\ error.status_code < 600
         THEN TRUE
    ELSE FALSE

\* A loop that gives up one attempt late.
ExhaustedLate(k, n) == k = n + 1

\* Line 83: the attempt just made was the last of range(max_retries + 1).
Exhausted(k, n) == k = n

Min(a, b) == IF a < b THEN a ELSE b

\* A wait that honours max_delay for a server-provided value only.
NextDelayUncapped(error, cur_delay, cap) ==
    IF /\ error.cls = "RateLimitError"
       /\ error.retry_after # None /\ error.retry_after # 0
    THEN Min(error.retry_after, cap)
    ELSE cur_delay

\* Lines 86-90: the wait before the next attempt.
NextDelay(error, cur_delay, cap) ==
    IF /\ error.cls = "RateLimitError"
       /\ error.retry_after # None /\ error.retry_after # 0
    THEN Min(error.retry_after, cap)
    ELSE Min(cur_delay, cap)

-----------------------------------------------------------------------------
(* utils/http.py *)

\* A Dict[str, str] is a function from its keys to their values; an
\* Optional one says whether it was given.
EmptyDict == [n \in {} |-> ""]
NoHeaders == [given |-> FALSE, dict |-> EmptyDict]
Given(d) == [given |-> TRUE, dict |-> d]

\* dict.update
Update(d, other) ==
    [n \in DOMAIN d \cup DOMAIN other |->
        IF n \in DOMAIN other THEN other[n] ELSE d[n]]

\* Lines 80-84: the headers every request starts from.
RequiredHeaders(key) ==
    [n \in {"Content-Type", "X-API-Key", "User-Agent"} |->
        CASE n = "Content-Type" -> "application/json"
          [] n = "X-API-Key" -> key
          [] n = "User-Agent" -> "z402-python-sdk/0.1.0"]

\* _build_headers, lines 78-87.  `if custom_headers:` is false for None and
\* for the empty dict.
_build_headers(key, custom) ==
    IF custom.given /\ DOMAIN custom.dict # {}
    THEN Update(RequiredHeaders(key), custom.dict)
    ELSE RequiredHeaders(key)

ApiKeys == {"z402_test_1", "z402_test_2"}
HeaderNames == {"Content-Type", "X-API-Key", "User-Agent", "X-Request-Id"}
HeaderValues == {"text/plain", "z402_other"}

\* The headers a caller may pass to request: none, or any dict over
\* HeaderNames.
CustomHeaders ==
    {NoHeaders} \cup
    { Given(d) : d \in UNION { [S -> HeaderValues] : S \in SUBSET HeaderNames } }

\* AsyncHTTPClient(api_key) (line 41), before any request.
InitHeaders(key) ==
    /\ api_key = key
    /\ custom_headers = NoHeaders
    /\ request_headers = EmptyDict

InitHeadersUnused == InitHeaders("z402_test_1")

\* request, line 159: request_headers = self._build_headers(headers)
BuildHeaders(custom) ==
    /\ custom_headers' = custom
    /\ request_headers' = _build_headers(api_key, custom)
    /\ UNCHANGED api_key
    /\ UNCHANGED not_headers

\* A response body, as _handle_response reads it (lines 91-95): a JSON
\* object ("dict", with what its "error" and "payment" keys hold), another
\* JSON value ("list"), text that is no JSON, or nothing.
Body(kind, error, payment) == [kind |-> kind, error |-> error, payment |-> payment]

Bodies ==
    { Body("dict", "absent", "absent"),
      Body("dict", "dict", "absent"),
      Body("dict", "str", "absent"),
      Body("dict", "absent", "dict"),
      Body("dict", "absent", "null"),
      Body("list", "absent", "absent"),
      Body("text", "absent", "absent"),
      Body("empty", "absent", "absent") }

\* The amount and resource a "payment" object of a 402 body carries.
BodyAmount == "0.01"
BodyResource == "/api/data"

\* response.headers.get("retry-after"): absent, or its text.
Header(present, value) == [present |-> present, value |-> value]
RetryAfterHeaders ==
    { Header(FALSE, <<>>), Header(TRUE, <<>>), Header(TRUE, <<"0">>),
      Header(TRUE, <<"5">>), Header(TRUE, <<"6", "0">>),
      Header(TRUE, <<"W", "e", "d">>) }

Statuses == {200, 400, 401, 402, 403, 404, 429, 500, 503}

Response(status, body, retry_after) ==
    [status |-> status, body |-> body, retry_after |-> retry_after]

\* The responses of the model: every status with every body; the retry-after
\* header varies on the one status whose handling reads it.
Responses ==
    { r \in { Response(s, b, h) :
                s \in Statuses, b \in Bodies, h \in RetryAfterHeaders } :
        r.status = 429 \/ ~r.retry_after.present }

NoResponse == Response(0, Body("empty", "absent", "absent"), Header(FALSE, <<>>))

\* aiohttp's ClientResponse.ok
ResponseOk(resp) == resp.status < 400

\* data after lines 91-95: the decoded JSON, or {"message": text}, or {}.
DataIsDict(body) == body.kind # "list"

\* Lines 101-102: data.get("error", {}).get(...) or data.get(...) raises
\* AttributeError when data or data["error"] is no dict.
MessageRaises(body) ==
    \/ ~DataIsDict(body)
    \/ body.error \in {"str", "null"}

\* Lines 119-122: int(retry_after) if retry_after else None
RetryAfterRaises(retry_after) ==
    /\ retry_after.present /\ retry_after.value # <<>>
    /\ ~IsIntText(retry_after.value)

RetryAfterValue(retry_after) ==
    IF retry_after.present /\ retry_after.value # <<>>
    THEN ParseInt(retry_after.value)
    ELSE None

\* _handle_response, lines 100-126: the exception a response that is not ok
\* raises.
ResponseError(resp) ==
    IF MessageRaises(resp.body) THEN PythonError("AttributeError")
    ELSE IF resp.status = 401 THEN AuthenticationError
    ELSE IF resp.status = 400 THEN InvalidRequestError
    ELSE IF resp.status = 402 THEN
        IF resp.body.payment = "null" THEN PythonError("AttributeError")
        ELSE IF resp.body.payment = "dict"
             THEN PaymentRequiredError(BodyAmount, BodyResource)
        ELSE PaymentRequiredError(NoneStr, NoneStr)
    ELSE IF resp.status = 404 THEN NotFoundError
    ELSE IF resp.status = 429 THEN
        IF RetryAfterRaises(resp.retry_after) THEN PythonError("ValueError")
        ELSE RateLimitError(RetryAfterValue(resp.retry_after))
    ELSE APIError(resp.status)

\* request, lines 178-181: a transport failure becomes a NetworkError.
TransportFailures == {"asyncio.TimeoutError", "aiohttp.ClientError"}
TransportError(failure) == NetworkError

-----------------------------------------------------------------------------
(* retry_with_backoff.wrapper around one operation (utils/retry.py 65-100), *)
(* the operation being AsyncHTTPClient.request or any other coroutine       *)

initial_delay == 1
backoff_multiplier == 2
MaxDelays == {3, 30}

\* Errors an operation other than request may raise.
OtherErrors ==
    { BudgetExceededError, WebhookVerificationError, WalletError,
      Z402Error(503), Z402Error(None), PythonError("Exception") }

\* wrapper is entered (lines 68-70) under retry_with_backoff(max_retries=n,
\* max_delay=cap).
RetryWrapperInit(n, cap) ==
    /\ max_retries = n
    /\ max_delay = cap
    /\ attempt = 0
    /\ delay = initial_delay
    /\ last_error = NoError
    /\ response = NoResponse
    /\ rpc = "call"
    /\ attempts = 0
    /\ errors = <<>>
    /\ sleeps = <<>>

InitRetry == \E n \in 0..MaxRetries, cap \in MaxDelays : RetryWrapperInit(n, cap)

retry_params == <<max_retries, max_delay>>

\* A wrapper that takes its backoff wait after a successful attempt as well.
ReturnsAfterWait(resp) ==
    /\ rpc' = "returned"
    /\ response' = resp
    /\ attempts' = attempts + 1
    /\ sleeps' = Append(sleeps, Min(delay, max_delay))
    /\ UNCHANGED <<retry_params, attempt, delay, last_error, errors>>
    /\ UNCHANGED not_retry

\* Line 74: the operation returns, and so does the wrapper.
Returns(resp) ==
    /\ rpc' = "returned"
    /\ response' = resp
    /\ attempts' = attempts + 1
    /\ UNCHANGED <<retry_params, attempt, delay, last_error, errors, sleeps>>
    /\ UNCHANGED not_retry

\* A wrapper that remembers the first error it caught, not the latest.
RaisesFirstError(error, resp) ==
    /\ last_error' = IF last_error = NoError THEN error ELSE last_error
    /\ response' = resp
    /\ attempts' = attempts + 1
    /\ errors' = Append(errors, error)
    /\ IF ~is_retryable_error(error)
       THEN /\ rpc' = "raised"
            /\ UNCHANGED <<delay, sleeps>>
       ELSE IF Exhausted(attempt, max_retries)
       THEN /\ rpc' = "raised"
            /\ UNCHANGED <<delay, sleeps>>
       ELSE /\ rpc' = "sleep"
            /\ delay' = NextDelay(error, delay, max_delay)
            /\ sleeps' = Append(sleeps, delay')
    /\ UNCHANGED <<retry_params, attempt>>
    /\ UNCHANGED not_retry

\* Lines 75-93: the operation raised `error`.
Raises(error, resp) ==
    /\ last_error' = error
    /\ response' = resp
    /\ attempts' = attempts + 1
    /\ errors' = Append(errors, error)
    /\ IF ~is_retryable_error(error)
       THEN /\ rpc' = "raised"
            /\ UNCHANGED <<delay, sleeps>>
       ELSE IF Exhausted(attempt, max_retries)
       THEN /\ rpc' = "raised"
            /\ UNCHANGED <<delay, sleeps>>
       ELSE /\ rpc' = "sleep"
            /\ delay' = NextDelay(error, delay, max_delay)
            /\ sleeps' = Append(sleeps, delay')
    /\ UNCHANGED <<retry_params, attempt>>
    /\ UNCHANGED not_retry

\* One attempt of request (http.py 166-176): a response arrives and
\* _handle_response returns its data or raises.
AttemptResponse(resp) ==
    /\ rpc = "call"
    /\ IF ResponseOk(resp) THEN Returns(resp)
       ELSE Raises(ResponseError(resp), resp)

\* One attempt of request that fails in transport (http.py 178-181).
AttemptTransportFailure(failure) ==
    /\ rpc = "call"
    /\ Raises(TransportError(failure), NoResponse)

\* One attempt of another wrapped operation, which raises.
AttemptRaises(error) ==
    /\ rpc = "call"
    /\ Raises(error, NoResponse)

\* A loop that goes on to its next attempt although it was cancelled in its
\* wait.
WakeThoughCancelled ==
    /\ rpc \in {"sleep", "cancelled"}
    /\ delay' = delay * backoff_multiplier
    /\ attempt' = attempt + 1
    /\ rpc' = "call"
    /\ UNCHANGED <<retry_params, last_error, response, attempts, errors, sleeps>>
    /\ UNCHANGED not_retry

\* Lines 93-96 and 72: asyncio.sleep(delay) is over, the delay grows and the
\* loop goes to its next attempt.
Wake ==
    /\ rpc = "sleep"
    /\ delay' = delay * backoff_multiplier
    /\ attempt' = attempt + 1
    /\ rpc' = "call"
    /\ UNCHANGED <<retry_params, last_error, response, attempts, errors, sleeps>>
    /\ UNCHANGED not_retry

\* The caller cancels the task while it is in asyncio.sleep (line 93): the
\* await raises CancelledError inside the except block, outside any try, and
\* the error leaves wrapper.
Cancel ==
    /\ rpc = "sleep"
    /\ rpc' = "cancelled"
    /\ UNCHANGED <<retry_params, attempt, delay, last_error, response,
                   attempts, errors, sleeps>>
    /\ UNCHANGED not_retry

RetryNext ==
    \/ \E resp \in Responses : AttemptResponse(resp)
    \/ \E f \in TransportFailures : AttemptTransportFailure(f)
    \/ \E e \in OtherErrors : AttemptRaises(e)
    \/ Wake

-----------------------------------------------------------------------------
(* One request of an AsyncHTTPClient: request (utils/http.py 130-181) under *)
(* its decorator, and the facilitator that receives what it sends           *)

\* AsyncHTTPClient(api_key, max_retries=n) (lines 33-46), before any request.
AsyncHTTPClientInit(n) ==
    /\ http_max_retries = n
    /\ sends = 0
    /\ processed = 0
    /\ applied = 0

\* The default of the constructor (line 37).
InitClientUnused == AsyncHTTPClientInit(3)

\* What a facilitator may answer to a request.
RequestResponses ==
    { Response(s, Body("dict", "dict", "absent"), Header(FALSE, <<>>)) :
        s \in {200, 400, 503} }

\* Lines 167-172: the attempt puts its request on the wire.  Every attempt
\* sends the same method, URL, headers (lines 78-87) and body.
Send ==
    /\ rpc = "call"
    /\ sends = attempts
    /\ sends' = sends + 1
    /\ UNCHANGED <<http_max_retries, processed, applied>>
    /\ UNCHANGED not_pipeline

\* The facilitator takes the request of the latest attempt, which is still
\* waiting for its response or has given up waiting, and applies its effect
\* (it creates the payment intent, it pays it).  Nothing in a request tells
\* it from the request of an earlier attempt.
FacilitatorApplies ==
    /\ processed < sends
    /\ (sends = attempts + 1 \/ response = NoResponse)
    /\ processed' = sends
    /\ applied' = applied + 1
    /\ UNCHANGED <<http_max_retries, sends>>
    /\ UNCHANGED not_pipeline

\* The attempt gets a response: a success reports an effect applied, an
\* error response one refused.
RequestResponse(resp) ==
    /\ sends = attempts + 1
    /\ IF ResponseOk(resp) THEN processed = sends ELSE processed < sends
    /\ AttemptResponse(resp)

\* The attempt times out or fails in transport (lines 178-181), whether the
\* facilitator has taken its request or not.
RequestTransportFailure(failure) ==
    /\ sends = attempts + 1
    /\ AttemptTransportFailure(failure)

RequestNext ==
    \/ Send
    \/ FacilitatorApplies
    \/ \E resp \in RequestResponses : RequestResponse(resp)
    \/ \E f \in TransportFailures : RequestTransportFailure(f)
    \/ Wake

-----------------------------------------------------------------------------
(* The client as a context manager (client.py 106-117, utils/http.py 48-66) *)
(* and one request issued inside the context                                *)

\* AsyncHTTPClient.__init__, line 46: no session yet.
InitSession ==
    /\ ctx = "before"
    /\ _session = "none"
    /\ sessions = 0

\* _ensure_session, lines 57-61: a ClientSession is created when there is
\* none or the one there is closed.
EnsuredSessions == IF _session = "open" THEN sessions ELSE sessions + 1

\* close, lines 63-66.
Closed == IF _session = "open" THEN "closed" ELSE _session

\* `async with client:` is entered (client.py 106-109, http.py 48-51).
EnterContext ==
    /\ ctx = "before"
    /\ ctx' = "inside"
    /\ _session' = "open"
    /\ sessions' = EnsuredSessions
    /\ UNCHANGED <<budget_vars, retry_vars, webhook_vars, pipeline_vars,
                   pay_vars, header_vars, read_vars, loop_vars,
                   replay_vars, middleware_vars>>

\* The body of the `async with` ends, normally or with an error, and
\* __aexit__ closes the session (client.py 111-113, http.py 53-55, 63-66).
ExitContext(raised) ==
    /\ ctx = "inside"
    /\ ctx' = IF raised THEN "raised" ELSE "exited"
    /\ _session' = Closed
    /\ UNCHANGED sessions
    /\ UNCHANGED <<budget_vars, retry_vars, webhook_vars, pipeline_vars,
                   pay_vars, header_vars, read_vars, loop_vars,
                   replay_vars, middleware_vars>>

\* An attempt of request starts (lines 156-172): it ensures the session and
\* puts its request on the wire.  The first attempt is made inside the
\* context, by the body or by a task the body started.
StartAttempt ==
    /\ rpc = "call"
    /\ sends = attempts
    /\ attempts = 0 => ctx = "inside"
    /\ sends' = sends + 1
    /\ _session' = "open"
    /\ sessions' = EnsuredSessions
    /\ UNCHANGED <<ctx, http_max_retries, processed, applied>>
    /\ UNCHANGED <<budget_vars, retry_vars, webhook_vars, pay_vars,
                   header_vars, read_vars, loop_vars,
                   replay_vars, middleware_vars>>

\* The attempt gets its response, over a session that is open.
SessionResponse(resp) ==
    /\ sends = attempts + 1
    /\ _session = "open"
    /\ AttemptResponse(resp)

\* The attempt fails in transport; closing the session under it is one way.
SessionTransportFailure(failure) ==
    /\ sends = attempts + 1
    /\ AttemptTransportFailure(failure)

SessionNext ==
    \/ EnterContext
    \/ \E raised \in BOOLEAN : ExitContext(raised)
    \/ StartAttempt
    \/ \E resp \in RequestResponses : SessionResponse(resp)
    \/ \E f \in TransportFailures : SessionTransportFailure(f)
    \/ Wake

-----------------------------------------------------------------------------
(* Two requests and a ledger caller as tasks of one event loop: between its *)
(* steps a task is at an await, and the loop runs whichever task is ready   *)

\* A loop whose wait is time.sleep: a task in its wait keeps the thread.
SuspendsUnlessSleeping(position) ==
    position \in {"call", "returned", "raised", "cancelled"}

\* Whether a wrapper at `position` has handed the event loop back: awaiting
\* the response of its attempt (http.py 167-176, under retry.py 74), inside
\* `await asyncio.sleep(delay)` (retry.py 93), or finished.
Suspends(position) ==
    position \in {"call", "sleep", "returned", "raised", "cancelled"}

\* The wrapper variables as one value.
Wrapper ==
    [max_retries |-> max_retries, max_delay |-> max_delay,
     attempt |-> attempt, delay |-> delay, last_error |-> last_error,
     response |-> response, rpc |-> rpc, attempts |-> attempts,
     errors |-> errors, sleeps |-> sleeps]

\* A wrapper just entered under retry_with_backoff() (retry.py 39-42, 68-70).
FreshWrapper ==
    [max_retries |-> 3, max_delay |-> 30,
     attempt |-> 0, delay |-> initial_delay, last_error |-> NoError,
     response |-> NoResponse, rpc |-> "call", attempts |-> 0,
     errors |-> <<>>, sleeps |-> <<>>]

InitLoop ==
    /\ parked = FreshWrapper
    /\ active = 1

\* The event loop turns to the other request: the one that was running has
\* handed the loop back.
Switch ==
    /\ Suspends(rpc)
    /\ parked' = Wrapper
    /\ active' = 3 - active
    /\ max_retries' = parked.max_retries
    /\ max_delay' = parked.max_delay
    /\ attempt' = parked.attempt
    /\ delay' = parked.delay
    /\ last_error' = parked.last_error
    /\ response' = parked.response
    /\ rpc' = parked.rpc
    /\ attempts' = parked.attempts
    /\ errors' = parked.errors
    /\ sleeps' = parked.sleeps
    /\ UNCHANGED <<budget_vars, webhook_vars, pipeline_vars, pay_vars,
                   header_vars, read_vars, session_vars, replay_vars,
                   middleware_vars>>

\* The loop can run a task other than the two requests when both have
\* handed it back, and one of the requests when the other has.
BothSuspended == Suspends(rpc) /\ Suspends(parked.rpc)
OtherSuspended == Suspends(parked.rpc)

\* The steps of the request that is running.
LoopAttemptResponse(resp) == OtherSuspended /\ AttemptResponse(resp)
LoopWake == OtherSuspended /\ Wake

\* The steps of a ledger caller's can_spend and record_spend.
LoopCall(c, method, amount) == BothSuspended /\ Call(c, method, amount)
LoopLedgerStep(c) ==
    /\ BothSuspended
    /\ \/ CanSpendAcquire(c)
       \/ CanSpendBody(c)
       \/ RaiseAcquire(c)
       \/ RaiseBudgetExceeded(c)
       \/ RecordSpendAcquire(c)
       \/ RecordSpendAppend(c)

\* The callers that use the ledger while the two requests are in flight.
LoopCallers == {1}

LoopNext ==
    \/ Switch
    \/ \E resp \in RequestResponses : LoopAttemptResponse(resp)
    \/ LoopWake
    \/ \E c \in LoopCallers, a \in Amounts : LoopCall(c, "record_spend", a)
    \/ \E c \in LoopCallers, a \in Amounts : LoopCall(c, "can_spend", a)
    \/ \E c \in LoopCallers : LoopLedgerStep(c)

-----------------------------------------------------------------------------
(* utils/budget.py: get_daily_spent, get_hourly_spent, get_statistics,      *)
(* get_transaction_history and reset_history                                *)

ReadMethods ==
    {"get_daily_spent", "get_hourly_spent", "get_statistics",
     "get_transaction_history"}

\* The hours a caller may ask the history for; 24 is the default (line 183).
HistoryHours == {0, HOUR, DAY}

\* A filter that takes the records strictly newer than the cutoff.
RECURSIVE After(_, _)
After(txs, cutoff) ==
    IF txs = <<>> THEN <<>>
    ELSE (IF Head(txs).timestamp > cutoff THEN <<Head(txs)>> ELSE <<>>)
         \o After(Tail(txs), cutoff)

\* [tx for tx in txs if tx["timestamp"] >= cutoff] (lines 196-200)
RECURSIVE Since(_, _)
Since(txs, cutoff) ==
    IF txs = <<>> THEN <<>>
    ELSE (IF Head(txs).timestamp >= cutoff THEN <<Head(txs)>> ELSE <<>>)
         \o Since(Tail(txs), cutoff)

\* The dict get_statistics builds (lines 217-235) from the two sums it has
\* read; str(Decimal) of a whole amount is its decimal numeral.  The two
\* usage percentages, floats derived from the same sums for display, are
\* left out.
Statistics(daily, hourly) ==
    LET base == [k \in {"daily_limit", "daily_spent", "daily_remaining"} |->
                    CASE k = "daily_limit" -> IntToStr(daily_limit)
                      [] k = "daily_spent" -> IntToStr(daily)
                      [] k = "daily_remaining" -> IntToStr(daily_limit - daily)]
        hourly_stats ==
                [k \in {"hourly_limit", "hourly_spent", "hourly_remaining"} |->
                    CASE k = "hourly_limit" -> IntToStr(hourly_limit)
                      [] k = "hourly_spent" -> IntToStr(hourly)
                      [] k = "hourly_remaining" -> IntToStr(hourly_limit - hourly)]
        with_hourly == IF Truthy(hourly_limit) THEN Update(base, hourly_stats)
                       ELSE base
    IN  IF Truthy(transaction_limit)
        THEN Update(with_hourly,
                    [k \in {"transaction_limit"} |-> IntToStr(transaction_limit)])
        ELSE with_hourly

InitReads ==
    /\ reading = [c \in Callers |-> "none"]
    /\ hours = [c \in Callers |-> DAY]
    /\ daily_spent = [c \in Callers |-> 0]
    /\ hourly_spent = [c \in Callers |-> 0]
    /\ stats = [c \in Callers |-> EmptyDict]
    /\ history = [c \in Callers |-> <<>>]
    /\ reads = [c \in Callers |-> <<>>]

\* What a step between the reads of a call leaves alone.
read_results == <<daily_spent, hourly_spent, stats, history>>

\* A caller starts one of the reads.  get_statistics starts with
\* get_daily_spent (line 214); get_transaction_history(hours=h).
CallRead(c, method, h) ==
    /\ pc[c] \in {"idle", "done"}
    /\ calls < MaxCalls
    /\ calls' = calls + 1
    /\ op' = [op EXCEPT ![c] = method]
    /\ pc' = [pc EXCEPT ![c] = "rd_lock"]
    /\ result' = [result EXCEPT ![c] = "pending"]
    /\ reading' = [reading EXCEPT ![c] =
            CASE method = "get_hourly_spent" -> "hourly"
              [] method = "get_transaction_history" -> "history"
              [] OTHER -> "daily"]
    /\ hours' = [hours EXCEPT ![c] = h]
    /\ reads' = [reads EXCEPT ![c] = <<>>]
    /\ UNCHANGED <<limits, _transactions, _lock, now, ticks, spend_amount,
                   checked>>
    /\ UNCHANGED read_results
    /\ UNCHANGED not_ledger

\* `async with self._lock:` of a read (lines 135, 152, 194).
ReadAcquire(c) ==
    /\ pc[c] = "rd_lock"
    /\ _lock = Free
    /\ _lock' = c
    /\ pc' = [pc EXCEPT ![c] = "rd_body"]
    /\ UNCHANGED <<limits, _transactions, now, ticks, op, spend_amount,
                   result, checked, calls>>
    /\ UNCHANGED read_vars
    /\ UNCHANGED not_ledger

\* The read sees the ledger as it is, at the time it is.
Seen == [ledger |-> _transactions, time |-> now]

\* get_daily_spent, lines 136-143, and the release of the lock.  Called
\* from get_statistics (line 214), get_hourly_spent follows (line 215).
ReadDaily(c) ==
    /\ pc[c] = "rd_body"
    /\ reading[c] = "daily"
    /\ _lock = c
    /\ _lock' = Free
    /\ daily_spent' = [daily_spent EXCEPT ![c] =
            WindowSum(_transactions, now - DAY)]
    /\ reads' = [reads EXCEPT ![c] = Append(@, Seen)]
    /\ IF op[c] = "get_statistics"
       THEN /\ reading' = [reading EXCEPT ![c] = "hourly"]
            /\ pc' = [pc EXCEPT ![c] = "rd_lock"]
            /\ UNCHANGED result
       ELSE /\ pc' = [pc EXCEPT ![c] = "done"]
            /\ result' = [result EXCEPT ![c] = "ok"]
            /\ UNCHANGED reading
    /\ UNCHANGED <<limits, _transactions, now, ticks, op, spend_amount,
                   checked, calls>>
    /\ UNCHANGED <<hours, hourly_spent, stats, history>>
    /\ UNCHANGED not_ledger

\* get_hourly_spent, lines 153-160, and the release of the lock.  Called
\* from get_statistics, the dict is built and returned (lines 217-235).
ReadHourly(c) ==
    /\ pc[c] = "rd_body"
    /\ reading[c] = "hourly"
    /\ _lock = c
    /\ _lock' = Free
    /\ LET hourly == WindowSum(_transactions, now - HOUR) IN
        /\ hourly_spent' = [hourly_spent EXCEPT ![c] = hourly]
        /\ stats' = [stats EXCEPT ![c] =
                IF op[c] = "get_statistics"
                THEN Statistics(daily_spent[c], hourly) ELSE @]
    /\ reads' = [reads EXCEPT ![c] = Append(@, Seen)]
    /\ pc' = [pc EXCEPT ![c] = "done"]
    /\ result' = [result EXCEPT ![c] = "ok"]
    /\ UNCHANGED <<limits, _transactions, now, ticks, op, spend_amount,
                   checked, calls>>
    /\ UNCHANGED <<reading, hours, daily_spent, history>>
    /\ UNCHANGED not_ledger

\* get_transaction_history, lines 195-200, and the release of the lock.
ReadHistory(c) ==
    /\ pc[c] = "rd_body"
    /\ reading[c] = "history"
    /\ _lock = c
    /\ _lock' = Free
    /\ history' = [history EXCEPT ![c] = Since(_transactions, now - hours[c])]
    /\ reads' = [reads EXCEPT ![c] = Append(@, Seen)]
    /\ pc' = [pc EXCEPT ![c] = "done"]
    /\ result' = [result EXCEPT ![c] = "ok"]
    /\ UNCHANGED <<limits, _transactions, now, ticks, op, spend_amount,
                   checked, calls>>
    /\ UNCHANGED <<reading, hours, daily_spent, hourly_spent, stats>>
    /\ UNCHANGED not_ledger

\* A caller starts reset_history.
CallReset(c) ==
    /\ pc[c] \in {"idle", "done"}
    /\ calls < MaxCalls
    /\ calls' = calls + 1
    /\ op' = [op EXCEPT ![c] = "reset_history"]
    /\ pc' = [pc EXCEPT ![c] = "rh_lock"]
    /\ result' = [result EXCEPT ![c] = "pending"]
    /\ UNCHANGED <<limits, _transactions, _lock, now, ticks, spend_amount,
                   checked>>
    /\ UNCHANGED read_vars
    /\ UNCHANGED not_ledger

\* `async with self._lock:` of reset_history (line 204).
ResetAcquire(c) ==
    /\ pc[c] = "rh_lock"
    /\ _lock = Free
    /\ _lock' = c
    /\ pc' = [pc EXCEPT ![c] = "rh_body"]
    /\ UNCHANGED <<limits, _transactions, now, ticks, op, spend_amount,
                   result, checked, calls>>
    /\ UNCHANGED read_vars
    /\ UNCHANGED not_ledger

\* self._transactions.clear() (line 205), and the release of the lock.
ResetBody(c) ==
    /\ pc[c] = "rh_body"
    /\ _lock = c
    /\ _lock' = Free
    /\ _transactions' = <<>>
    /\ pc' = [pc EXCEPT ![c] = "done"]
    /\ result' = [result EXCEPT ![c] = "ok"]
    /\ UNCHANGED <<limits, now, ticks, op, spend_amount, checked, calls>>
    /\ UNCHANGED read_vars
    /\ UNCHANGED not_ledger

LedgerNext ==
    \/ BudgetNext
    \/ \E c \in Callers, m \in ReadMethods, h \in HistoryHours :
          CallRead(c, m, IF m = "get_transaction_history" THEN h ELSE DAY)
    \/ \E c \in Callers : ReadAcquire(c)
    \/ \E c \in Callers : ReadDaily(c)
    \/ \E c \in Callers : ReadHourly(c)
    \/ \E c \in Callers : ReadHistory(c)
    \/ \E c \in Callers : CallReset(c)
    \/ \E c \in Callers : ResetAcquire(c)
    \/ \E c \in Callers : ResetBody(c)

-----------------------------------------------------------------------------
(* Z402Client.pay (client.py 119-191): callers that each pay once, sharing  *)
(* the client and its budget manager                                        *)

\* What a request of the pipeline ends with when it does not succeed.
PayErrors == {NetworkError, InvalidRequestError, APIError(503)}

\* Z402Client(api_key, budget_manager=...) (lines 65-104), before any pay.
Z402ClientInit(budget) ==
    /\ has_budget = budget
    /\ check_budget = [c \in Callers |-> TRUE]
    /\ pay_pc = [c \in Callers |-> "idle"]
    /\ pay_outcome = [c \in Callers |-> "pending"]
    /\ pay_error = [c \in Callers |-> NoError]
    /\ created = [c \in Callers |-> FALSE]
    /\ submitted = <<>>

InitPayUnused == Z402ClientInit(FALSE)

pay_config == <<has_budget, check_budget>>

\* pay raises `error`.
PayRaise(c, error) ==
    /\ pay_outcome' = [pay_outcome EXCEPT ![c] = "raised"]
    /\ pay_error' = [pay_error EXCEPT ![c] = error]

\* Lines 168-169: pay(amount, ..., check_budget=check) is called; with the
\* check enabled and a budget manager attached it enters can_spend(amount).
PayCall(c, amount, check) ==
    /\ pay_pc[c] = "idle"
    /\ pc[c] = "idle"
    /\ check_budget' = [check_budget EXCEPT ![c] = check]
    /\ IF check /\ has_budget
       THEN /\ pay_pc' = [pay_pc EXCEPT ![c] = "check"]
            /\ Enter(c, "can_spend", amount)
       ELSE /\ pay_pc' = [pay_pc EXCEPT ![c] = "create"]
            /\ spend_amount' = [spend_amount EXCEPT ![c] = amount]
            /\ UNCHANGED <<pc, op, result, checked>>
    /\ UNCHANGED <<limits, _transactions, _lock, now, ticks, calls>>
    /\ UNCHANGED <<has_budget, pay_outcome, pay_error, created, submitted>>
    /\ UNCHANGED not_client

\* Lines 169-170: can_spend has returned.
PayChecked(c) ==
    /\ pay_pc[c] = "check"
    /\ pay_outcome[c] = "pending"
    /\ pc[c] = "done"
    /\ IF result[c] = "True"
       THEN /\ pay_pc' = [pay_pc EXCEPT ![c] = "create"]
            /\ UNCHANGED <<pay_outcome, pay_error>>
       ELSE /\ PayRaise(c, PythonError("ValueError"))
            /\ UNCHANGED pay_pc
    /\ UNCHANGED <<pay_config, created, submitted>>
    /\ UNCHANGED budget_vars
    /\ UNCHANGED not_client

\* Lines 173-179 (resources/payments.py 42-43): the payment intent is
\* created.
PayCreated(c) ==
    /\ pay_pc[c] = "create"
    /\ pay_outcome[c] = "pending"
    /\ created' = [created EXCEPT ![c] = TRUE]
    /\ pay_pc' = [pay_pc EXCEPT ![c] = "submit"]
    /\ UNCHANGED <<pay_config, pay_outcome, pay_error, submitted>>
    /\ UNCHANGED budget_vars
    /\ UNCHANGED not_client

\* Lines 173-179: payments.create raises what its request raised.
PayCreateFails(c, error) ==
    /\ pay_pc[c] = "create"
    /\ pay_outcome[c] = "pending"
    /\ PayRaise(c, error)
    /\ UNCHANGED <<pay_config, pay_pc, created, submitted>>
    /\ UNCHANGED budget_vars
    /\ UNCHANGED not_client

\* Lines 182-191 (resources/payments.py 82-86): the payment is submitted;
\* with a budget manager attached pay enters record_spend(amount, paid.id),
\* without one it returns.
PaySubmitted(c) ==
    /\ pay_pc[c] = "submit"
    /\ pay_outcome[c] = "pending"
    /\ submitted' = Append(submitted, SpendRecord(spend_amount[c], c, now))
    /\ IF has_budget
       THEN /\ pay_pc' = [pay_pc EXCEPT ![c] = "record"]
            /\ Enter(c, "record_spend", spend_amount[c])
            /\ UNCHANGED pay_outcome
       ELSE /\ pay_pc' = [pay_pc EXCEPT ![c] = "end"]
            /\ pay_outcome' = [pay_outcome EXCEPT ![c] = "returned"]
            /\ UNCHANGED <<pc, op, spend_amount, result, checked>>
    /\ UNCHANGED <<limits, _transactions, _lock, now, ticks, calls>>
    /\ UNCHANGED <<pay_config, pay_error, created>>
    /\ UNCHANGED not_client

\* Lines 182-185: payments.pay raises what its request raised.
PaySubmitFails(c, error) ==
    /\ pay_pc[c] = "submit"
    /\ pay_outcome[c] = "pending"
    /\ PayRaise(c, error)
    /\ UNCHANGED <<pay_config, pay_pc, created, submitted>>
    /\ UNCHANGED budget_vars
    /\ UNCHANGED not_client

\* Lines 189-191: record_spend has returned, and pay returns, or it has
\* raised, and pay raises the same.
PayRecorded(c) ==
    /\ pay_pc[c] = "record"
    /\ pay_outcome[c] = "pending"
    /\ pc[c] = "done"
    /\ IF result[c] = "ok"
       THEN /\ pay_outcome' = [pay_outcome EXCEPT ![c] = "returned"]
            /\ pay_pc' = [pay_pc EXCEPT ![c] = "end"]
            /\ UNCHANGED pay_error
       ELSE /\ PayRaise(c, BudgetExceededError)
            /\ UNCHANGED pay_pc
    /\ UNCHANGED <<pay_config, created, submitted>>
    /\ UNCHANGED budget_vars
    /\ UNCHANGED not_client

PayNext ==
    \/ \E c \in Callers, a \in Amounts, check \in BOOLEAN : PayCall(c, a, check)
    \/ \E c \in Callers : PayChecked(c)
    \/ \E c \in Callers : PayCreated(c)
    \/ \E c \in Callers, e \in PayErrors : PayCreateFails(c, e)
    \/ \E c \in Callers : PaySubmitted(c)
    \/ \E c \in Callers, e \in PayErrors : PaySubmitFails(c, e)
    \/ \E c \in Callers : PayRecorded(c)
    \/ \E c \in Callers : CanSpendAcquire(c)
    \/ \E c \in Callers : CanSpendBody(c)
    \/ \E c \in Callers : RaiseAcquire(c)
    \/ \E c \in Callers : RaiseBudgetExceeded(c)
    \/ \E c \in Callers : RecordSpendAcquire(c)
    \/ \E c \in Callers : RecordSpendAppend(c)
    \/ \E d \in TickSteps : Tick(d)

-----------------------------------------------------------------------------
(* utils/webhook.py *)

Quote == "\""
Letters == {"a", "b"}
\* One character outside ASCII, and one byte that is no UTF-8.
NonAscii == "U+00E9"
BadByte == "0xFF"

\* text.split(sep): the parts of text between the occurrences of sep.
RECURSIVE Split(_, _)
Split(text, sep) ==
    IF \A i \in 1..Len(text) : text[i] # sep THEN <<text>>
    ELSE LET i == CHOOSE k \in 1..Len(text) :
                      text[k] = sep /\ \A j \in 1..(k - 1) : text[j] # sep
         IN <<SubSeq(text, 1, i - 1)>>
            \o Split(SubSeq(text, i + 1, Len(text)), sep)

\* sep.join(parts)
RECURSIVE JoinWith(_, _)
JoinWith(parts, sep) ==
    IF parts = <<>> THEN <<>>
    ELSE IF Len(parts) = 1 THEN parts[1]
    ELSE parts[1] \o <<sep>> \o JoinWith(Tail(parts), sep)

\* text.startswith(prefix)
StartsWith(text, prefix) ==
    Len(text) >= Len(prefix) /\ SubSeq(text, 1, Len(prefix)) = prefix

\* next((p for p in parts if p.startswith(prefix)), None): the index of the
\* first such part, 0 when there is none.
FirstPart(parts, prefix) ==
    IF \E i \in 1..Len(parts) : StartsWith(parts[i], prefix)
    THEN CHOOSE i \in 1..Len(parts) :
            /\ StartsWith(parts[i], prefix)
            /\ \A j \in 1..(i - 1) : ~StartsWith(parts[j], prefix)
    ELSE 0

\* part.split("=", 1)[1], for a part that holds an "=".
AfterEquals(part) == JoinWith(Tail(Split(part, "=")), "=")

\* A dict is the sequence key, value, key, value, ... of its items in
\* insertion order; a key is a letter and a value a one-digit number.
RECURSIVE DumpItems(_)
DumpItems(d) ==
    IF d = <<>> THEN <<>>
    ELSE <<Quote, d[1], Quote, ":", d[2]>>
         \o (IF Len(d) = 2 THEN <<>>
             ELSE <<",">> \o DumpItems(SubSeq(d, 3, Len(d))))

\* json.dumps(d, separators=(",", ":"))
Dumps(d) == <<"{">> \o DumpItems(d) \o <<"}">>

\* json.loads on the texts of this model: an object of such items, with or
\* without spaces between its tokens, decodes; anything else raises
\* JSONDecodeError.
NoSpaces(text) == SelectSeq(text, LAMBDA ch : ch # " ")

IsItemText(p) ==
    /\ Len(p) = 5
    /\ p[1] = Quote /\ p[2] \in Letters /\ p[3] = Quote
    /\ p[4] = ":" /\ p[5] \in Digits

InnerText(text) == SubSeq(NoSpaces(text), 2, Len(NoSpaces(text)) - 1)

LoadsRaises(text) ==
    LET t == NoSpaces(text) IN
    ~ /\ Len(t) >= 2
      /\ t[1] = "{" /\ t[Len(t)] = "}"
      /\ \/ Len(t) = 2
         \/ \A i \in 1..Len(Split(InnerText(text), ",")) :
                IsItemText(Split(InnerText(text), ",")[i])

RECURSIVE LoadItems(_)
LoadItems(parts) ==
    IF parts = <<>> THEN <<>>
    ELSE <<parts[1][2], parts[1][5]>> \o LoadItems(Tail(parts))

Loads(text) ==
    IF Len(NoSpaces(text)) = 2 THEN <<>>
    ELSE LoadItems(Split(InnerText(text), ","))

\* A payload argument: a dict, a str or bytes.
Payload(type, value) == [type |-> type, value |-> value]

\* bytes.decode("utf-8")
DecodeRaises(bytes) == \E i \in 1..Len(bytes) : bytes[i] = BadByte

\* Lines 76-81 and 126-129: the text that is signed.
PayloadString(payload) ==
    IF payload.type = "dict" THEN Dumps(payload.value) ELSE payload.value

\* The text of a str, as one string.
RECURSIVE Flat(_)
Flat(text) == IF text = <<>> THEN "" ELSE text[1] \o Flat(Tail(text))

\* hmac.new(key, msg, hashlib.sha256).hexdigest(): HMAC-SHA256 taken as an
\* ideal MAC, whose digest names the key and the message it was made from.
HmacSha256Hex(key, msg) == <<"hmac(" \o Flat(key) \o ";" \o Flat(msg) \o ")">>

\* A signed text that leaves the timestamp out.
SignedPayloadUntimed(timestamp, payload_string) == payload_string

\* f"{timestamp}.{payload_string}"
SignedPayload(timestamp, payload_string) ==
    IntToStr(timestamp) \o <<".">> \o payload_string

\* hmac.compare_digest on two str: TypeError unless both are ASCII.
CompareDigestRaises(a, b) ==
    \/ \E i \in 1..Len(a) : a[i] = NonAscii
    \/ \E i \in 1..Len(b) : b[i] = NonAscii

\* json.dumps(d) with its default separators (", " and ": ").
RECURSIVE Spaced(_)
Spaced(text) ==
    IF text = <<>> THEN <<>>
    ELSE IF text[1] \in {":", ","} THEN <<text[1], " ">> \o Spaced(Tail(text))
    ELSE <<text[1]>> \o Spaced(Tail(text))

\* A sender that signs the default, spaced, encoding of a dict.
construct_webhook_signature_spaced(payload, secret, t) ==
    <<"t", "=">> \o IntToStr(t) \o <<",", "v", "1", "=">>
    \o HmacSha256Hex(secret,
            SignedPayload(t, IF payload.type = "dict"
                             THEN Spaced(Dumps(payload.value))
                             ELSE payload.value))

\* construct_webhook_signature(payload, secret) when time.time() is t.
construct_webhook_signature(payload, secret, t) ==
    <<"t", "=">> \o IntToStr(t) \o <<",", "v", "1", "=">>
    \o HmacSha256Hex(secret, SignedPayload(t, PayloadString(payload)))

\* What a call of verify_webhook ends in.
Outcome(kind, message, event) ==
    [kind |-> kind, message |-> message, event |-> event]
Raise(message) == Outcome("WebhookVerificationError", message, <<>>)
NoOutcome == Outcome("none", "", <<>>)

Abs(n) == IF n < 0 THEN 0 - n ELSE n

\* A freshness check that lets timestamps of the future pass.
TooOldPastOnly(t, timestamp, tolerance) == t - timestamp > tolerance

\* Line 72: abs(now - timestamp) > tolerance
TooOld(t, timestamp, tolerance) == Abs(t - timestamp) > tolerance

\* Lines 55-63: the t= and v1= values of the header; `ok` is false when
\* either part is missing (line 59).
ParseHeader(signature) ==
    LET parts == Split(signature, ",")
        ti == FirstPart(parts, <<"t", "=">>)
        vi == FirstPart(parts, <<"v", "1", "=">>)
    IN IF ti = 0 \/ vi = 0
       THEN [ok |-> FALSE, timestamp_str |-> <<>>, provided_signature |-> <<>>]
       ELSE [ok |-> TRUE,
             timestamp_str |-> AfterEquals(parts[ti]),
             provided_signature |-> AfterEquals(parts[vi])]

\* Lines 75-101, once the header is parsed and fresh.
VerifyMac(payload, timestamp, provided_signature, secret) ==
    IF payload.type = "bytes" /\ DecodeRaises(payload.value)
    THEN Outcome("UnicodeDecodeError", "", <<>>)
    ELSE LET payload_string == PayloadString(payload)
             expected_signature ==
                 HmacSha256Hex(secret, SignedPayload(timestamp, payload_string))
         IN IF CompareDigestRaises(expected_signature, provided_signature)
            THEN Outcome("TypeError", "", <<>>)
            ELSE IF expected_signature # provided_signature
            THEN Raise("Invalid signature")
            ELSE IF payload.type = "dict"
            THEN Outcome("event", "", payload.value)
            ELSE IF LoadsRaises(payload_string)
            THEN Raise("Invalid JSON payload")
            ELSE Outcome("event", "", Loads(payload_string))

\* A call of verify_webhook: its arguments, the time, what it ended in.
VerifyCall(payload, signature, secret, tolerance, t, outcome) ==
    [payload |-> payload, signature |-> signature, secret |-> secret,
     tolerance |-> tolerance, now |-> t, outcome |-> outcome]
NoCall == VerifyCall(Payload("none", <<>>), <<>>, <<>>, 0, 0, NoOutcome)

\* A verify_webhook that remembers: it refuses a header it has accepted
\* before.
verify_webhook_once(payload, signature, secret, tolerance, t) ==
    IF signature = <<>> THEN Raise("Missing signature header")
    ELSE IF secret = <<>> THEN Raise("Webhook secret not provided")
    ELSE IF v_earlier.outcome.kind = "event" /\ v_earlier.signature = signature
    THEN Raise("Signature already used")
    ELSE LET h == ParseHeader(signature) IN
         IF ~h.ok THEN Raise("Invalid signature format")
         ELSE IF ~IsIntText(h.timestamp_str)
         THEN Raise("Invalid timestamp in signature")
         ELSE IF TooOld(t, ParseInt(h.timestamp_str), tolerance)
         THEN Raise("Signature timestamp too old")
         ELSE VerifyMac(payload, ParseInt(h.timestamp_str),
                        h.provided_signature, secret)

\* A verify_webhook without the check of the secret (lines 51-52).
verify_webhook_any_secret(payload, signature, secret, tolerance, t) ==
    IF signature = <<>> THEN Raise("Missing signature header")
    ELSE LET h == ParseHeader(signature) IN
         IF ~h.ok THEN Raise("Invalid signature format")
         ELSE IF ~IsIntText(h.timestamp_str)
         THEN Raise("Invalid timestamp in signature")
         ELSE IF TooOld(t, ParseInt(h.timestamp_str), tolerance)
         THEN Raise("Signature timestamp too old")
         ELSE VerifyMac(payload, ParseInt(h.timestamp_str),
                        h.provided_signature, secret)

\* verify_webhook(payload, signature, secret, tolerance) when time.time() is t.
verify_webhook(payload, signature, secret, tolerance, t) ==
    IF signature = <<>> THEN Raise("Missing signature header")
    ELSE IF secret = <<>> THEN Raise("Webhook secret not provided")
    ELSE LET h == ParseHeader(signature) IN
         IF ~h.ok THEN Raise("Invalid signature format")
         ELSE IF ~IsIntText(h.timestamp_str)
         THEN Raise("Invalid timestamp in signature")
         ELSE IF TooOld(t, ParseInt(h.timestamp_str), tolerance)
         THEN Raise("Signature timestamp too old")
         ELSE VerifyMac(payload, ParseInt(h.timestamp_str),
                        h.provided_signature, secret)

-----------------------------------------------------------------------------
(* A webhook delivery: the sender signs, the header travels, the receiver   *)
(* verifies                                                                 *)

DefaultTolerance == 300

D1 == <<"a", "1">>
D2 == <<"a", "2">>

\* What the sender signs: a dict, its compact text, a text with a space in
\* it, and a text that is no JSON.
ConstructPayloads ==
    { Payload("dict", D1),
      Payload("str", Dumps(D1)),
      Payload("str", <<"{", Quote, "a", Quote, ":", " ", "1", "}">>),
      Payload("str", <<"a", "1">>) }

VerifyPayloads ==
    ConstructPayloads
    \cup { Payload("dict", D2), Payload("bytes", Dumps(D1)),
           Payload("bytes", <<BadByte>>) }

SenderSecrets == { <<>>, <<"k">> }
Secrets == { <<>>, <<"k">>, <<"j">> }
Tolerances == { -1, 1, DefaultTolerance }
\* How far the sender's clock is ahead of the receiver's.
SenderSkews == { 0, 2 }
ClockSteps == { 1, 299, 400 }

TamperKinds ==
    { "drop_t", "drop_v1", "bad_t", "refresh_t", "bad_mac", "non_ascii_mac",
      "swap", "zero_pad", "empty" }

HeaderText(timestamp_str, mac) ==
    <<"t", "=">> \o timestamp_str \o <<",", "v", "1", "=">> \o mac

\* What becomes of a constructed header on its way to the receiver.
Tampered(kind, sent, t) ==
    LET ts == ParseHeader(sent).timestamp_str
        mac == ParseHeader(sent).provided_signature
    IN CASE kind = "drop_t" -> <<"v", "1", "=">> \o mac
         [] kind = "drop_v1" -> <<"t", "=">> \o ts
         [] kind = "bad_t" -> HeaderText(<<"x">>, mac)
         [] kind = "refresh_t" -> HeaderText(IntToStr(t), mac)
         [] kind = "bad_mac" -> HeaderText(ts, <<"a", "b">>)
         [] kind = "non_ascii_mac" -> HeaderText(ts, <<NonAscii>>)
         [] kind = "swap" -> <<"v", "1", "=">> \o mac \o <<",", "t", "=">> \o ts
         [] kind = "zero_pad" -> HeaderText(<<"0">> \o ts, mac)
         [] kind = "empty" -> <<>>

NoPayload == Payload("none", <<>>)
NoSigned == [payload |-> NoPayload, secret |-> <<>>, timestamp |-> None]

InitWebhook ==
    /\ w_now = Epoch
    /\ w_advances = 0
    /\ header = <<>>
    /\ signed = NoSigned
    /\ tamper = "none"
    /\ v_payload = NoPayload
    /\ v_secret = <<>>
    /\ v_tolerance = DefaultTolerance
    /\ v_now = Epoch
    /\ v_result = NoOutcome
    /\ v_earlier = NoCall

\* The sender calls construct_webhook_signature(payload, secret).
Construct(payload, secret, skew) ==
    /\ signed = NoSigned
    /\ v_result = NoOutcome
    /\ header' = construct_webhook_signature(payload, secret, w_now + skew)
    /\ signed' = [payload |-> payload, secret |-> secret,
                  timestamp |-> w_now + skew]
    /\ UNCHANGED <<w_now, w_advances, tamper, v_payload, v_secret,
                   v_tolerance, v_now, v_result>>
    /\ UNCHANGED not_webhook

\* The header is altered in transit.
Tamper(kind) ==
    /\ signed # NoSigned
    /\ v_result = NoOutcome
    /\ tamper = "none"
    /\ tamper' = kind
    /\ header' = Tampered(kind, header, w_now)
    /\ UNCHANGED <<w_now, w_advances, signed, v_payload, v_secret,
                   v_tolerance, v_now, v_result>>
    /\ UNCHANGED not_webhook

\* time.time() moves on.
Advance(d) ==
    /\ signed # NoSigned
    /\ v_result = NoOutcome
    /\ w_advances < MaxAdvances
    /\ w_advances' = w_advances + 1
    /\ w_now' = w_now + d
    /\ UNCHANGED <<header, signed, tamper, v_payload, v_secret,
                   v_tolerance, v_now, v_result>>
    /\ UNCHANGED not_webhook

\* The receiver calls verify_webhook(payload, header, secret, tolerance).
Verify(payload, secret, tolerance) ==
    /\ v_result = NoOutcome
    /\ v_payload' = payload
    /\ v_secret' = secret
    /\ v_tolerance' = tolerance
    /\ v_now' = w_now
    /\ v_result' = verify_webhook(payload, header, secret, tolerance, w_now)
    /\ UNCHANGED <<w_now, w_advances, header, signed, tamper>>
    /\ UNCHANGED not_webhook

\* The outcome has gone to the caller; the receiver keeps nothing of the call.
Handled ==
    /\ v_result # NoOutcome
    /\ v_payload' = NoPayload
    /\ v_secret' = <<>>
    /\ v_tolerance' = DefaultTolerance
    /\ v_now' = Epoch
    /\ v_result' = NoOutcome
    /\ UNCHANGED <<w_now, w_advances, header, signed, tamper>>
    /\ UNCHANGED not_webhook

\* Handled, with an observer who may note the call that was handled; the
\* receiver itself keeps nothing of it.
HandledObserved(note) ==
    /\ v_result # NoOutcome
    /\ v_earlier' = IF note
                    THEN VerifyCall(v_payload, header, v_secret, v_tolerance,
                                    v_now, v_result)
                    ELSE v_earlier
    /\ v_payload' = NoPayload
    /\ v_secret' = <<>>
    /\ v_tolerance' = DefaultTolerance
    /\ v_now' = Epoch
    /\ v_result' = NoOutcome
    /\ UNCHANGED <<w_now, w_advances, header, signed, tamper>>
    /\ UNCHANGED not_delivery

WebhookNext ==
    \/ \E p \in ConstructPayloads, s \in SenderSecrets, k \in SenderSkews :
            Construct(p, s, k)
    \/ \E kind \in TamperKinds : Tamper(kind)
    \/ \E d \in ClockSteps : Advance(d)
    \/ \E p \in VerifyPayloads, s \in Secrets, tol \in Tolerances :
            Verify(p, s, tol)
    \/ Handled

-----------------------------------------------------------------------------
(* middleware.py: Z402Middleware.__call__ (69-155), the payment gate of a   *)
(* FastAPI application, and the facilitator's answers to its verification   *)
(* call                                                                     *)

\* request.url.path, a text.
Paths == { <<"/">>, <<"/", "p">>, <<"/", "p", "x">>, <<"/", "q">> }
ProtectedPathSets == { {}, {<<"/", "p">>} }
\* request.headers.get("z402-payment-intent"): None, "" or an intent id.
IntentHeaders == { "None", "", "pi_1" }
RequiredAmounts == { 1, 2 }

Request(path, payment_intent_id) ==
    [path |-> path, payment_intent_id |-> payment_intent_id]
NoRequest == Request(<<>>, "None")

\* The "amount" of the verified intent: absent, a text float() refuses, or
\* the text of a number.
IntentAmount(kind, value) == [kind |-> kind, value |-> value]
IntentAmounts ==
    { IntentAmount("absent", 0), IntentAmount("text", 0) }
    \cup { IntentAmount("number", n) : n \in 0..3 }
IntentStatuses == { "absent", "settled", "pending" }

\* What the GET of lines 101-106 comes back with: a transport failure, a
\* response that is not ok, or an ok response whose body is no JSON, a JSON
\* list or a JSON object with or without "status" and "amount".
Reply(kind, status, amount) ==
    [kind |-> kind, status |-> status, amount |-> amount]
NoReply == Reply("none", "absent", IntentAmount("absent", 0))
Replies ==
    { Reply(k, "absent", IntentAmount("absent", 0)) :
        k \in {"transport_failure", "not_ok", "not_json", "list"} }
    \cup { Reply("dict", s, a) : s \in IntentStatuses, a \in IntentAmounts }

\* What __call__ ends in: a JSONResponse of its own, the response of the
\* wrapped handler, or the exception the handler raised.
GateResponse(status_code, code) == [status_code |-> status_code, code |-> code]
NoGateResponse == GateResponse(0, "none")
HandlerResponse == GateResponse(200, "handler")
HandlerRaised == GateResponse(0, "raised")
HandlerOutcomes == { HandlerResponse, HandlerRaised }

\* Line 76: any(request.url.path.startswith(path) for path in
\* self.protected_paths)
IsProtected(path) == \E p \in protected_paths : StartsWith(path, p)

\* The `except Exception` of lines 147-155.
InternalError == GateResponse(500, "internal_error")

\* A gate that lets every settled intent pass, whatever its amount.
DecideSettledOnly(reply) ==
    IF reply.kind # "dict" THEN InternalError
    ELSE IF reply.status = "absent" THEN InternalError
    ELSE IF reply.status # "settled"
    THEN (IF reply.amount.kind = "absent" THEN InternalError
          ELSE GateResponse(402, "payment_not_settled"))
    ELSE HandlerResponse

\* Lines 97-145, once the intent id is there: what the gate decides on the
\* verification reply; HandlerResponse stands for `call_next(request)`.
\* Lines 103-106 raise on a transport failure, a response that is not ok and
\* a body that is no JSON; payment_intent["status"] raises on a list and on a
\* missing key (line 109); the 402 of lines 110-122 reads
\* payment_intent["amount"] and raises when it is missing; float() raises on
\* a text that is no number (line 125).
Decide(reply) ==
    IF reply.kind # "dict" THEN InternalError
    ELSE IF reply.status = "absent" THEN InternalError
    ELSE IF reply.status # "settled"
    THEN (IF reply.amount.kind = "absent" THEN InternalError
          ELSE GateResponse(402, "payment_not_settled"))
    ELSE IF reply.amount.kind # "number" THEN InternalError
    ELSE IF reply.amount.value < mw_amount
    THEN GateResponse(402, "insufficient_payment")
    ELSE HandlerResponse

\* Z402Middleware(app, api_key, protected_paths, amount, resource)
\* (lines 52-66), before any request.
Z402MiddlewareInit(paths, required) ==
    /\ protected_paths = paths
    /\ mw_amount = required
    /\ mw_pc = "idle"
    /\ mw_request = NoRequest
    /\ mw_reply = NoReply
    /\ mw_response = NoGateResponse
    /\ mw_called = FALSE
    /\ z402_payment = NoReply
    /\ mw_requests = 0

InitMiddlewareUnused == Z402MiddlewareInit({}, 1)

mw_config == <<protected_paths, mw_amount>>

\* Lines 74-95: a request arrives.  On an unprotected path it goes to the
\* handler (line 77), whose response or exception is __call__'s; on a
\* protected path without an intent id the answer is 402 (lines 82-95);
\* otherwise the verification call is made.
Arrive(path, payment_intent_id, handler) ==
    /\ mw_pc \in {"idle", "done"}
    /\ mw_requests < MaxRequests
    /\ mw_requests' = mw_requests + 1
    /\ mw_request' = Request(path, payment_intent_id)
    /\ mw_reply' = NoReply
    /\ z402_payment' = NoReply
    /\ IF ~IsProtected(path)
       THEN /\ mw_called' = TRUE
            /\ mw_response' = handler
            /\ mw_pc' = "done"
       ELSE IF payment_intent_id \in {"None", ""}
       THEN /\ mw_called' = FALSE
            /\ mw_response' = GateResponse(402, "payment_required")
            /\ mw_pc' = "done"
       ELSE /\ mw_called' = FALSE
            /\ mw_response' = NoGateResponse
            /\ mw_pc' = "verify"
    /\ UNCHANGED mw_config
    /\ UNCHANGED not_middleware

\* Lines 97-155: the verification call comes back and the gate decides.  A
\* handler that raises does so inside the try of line 98, and its exception
\* becomes the 500 of lines 147-155.
Verified(reply, handler) ==
    /\ mw_pc = "verify"
    /\ mw_reply' = reply
    /\ IF Decide(reply) = HandlerResponse
       THEN /\ z402_payment' = reply
            /\ mw_called' = TRUE
            /\ mw_response' = IF handler = HandlerRaised THEN InternalError
                              ELSE handler
       ELSE /\ mw_response' = Decide(reply)
            /\ UNCHANGED <<mw_called, z402_payment>>
    /\ mw_pc' = "done"
    /\ UNCHANGED <<mw_config, mw_request, mw_requests>>
    /\ UNCHANGED not_middleware

MiddlewareNext ==
    \/ \E path \in Paths, id \in IntentHeaders, h \in HandlerOutcomes :
            Arrive(path, id, h)
    \/ \E reply \in Replies, h \in HandlerOutcomes : Verified(reply, h)

-----------------------------------------------------------------------------
(* Specifications *)

\* The parts a specification does not exercise stay as constructed: a ledger
\* without optional limits, the wrapper with the defaults of request
\* (http.py 130, retry.py 39-42), no webhook under way.
InitLedgerUnused ==
    /\ InitBudget
    /\ hourly_limit = None
    /\ transaction_limit = None

InitRetryUnused == RetryWrapperInit(3, 30)

\* Spec: concurrent callers of one BudgetManager.
Init == InitBudget /\ InitRetryUnused /\ InitWebhook /\ InitMiddlewareUnused /\ InitClientUnused
    /\ InitPayUnused
    /\ InitSession
    /\ InitLoop
    /\ InitReads
    /\ InitHeadersUnused

Next == BudgetNext

Spec == Init /\ [][Next]_vars

\* SpecAmounts: the callers of Spec, with amounts of either sign.  The amount
\* argument is a str handed to Decimal (budget.py 62), which takes "-1" and
\* "0" as it takes "1"; neither can_spend nor record_spend looks at its sign.
AnyAmounts == {-1, 0, 1, 2}

AmountsNext ==
    \/ \E c \in Callers, a \in AnyAmounts : Call(c, "record_spend", a)
    \/ \E c \in Callers, a \in AnyAmounts : Call(c, "can_spend", a)
    \/ \E c \in Callers : CanSpendAcquire(c)
    \/ \E c \in Callers : CanSpendBody(c)
    \/ \E c \in Callers : RaiseAcquire(c)
    \/ \E c \in Callers : RaiseBudgetExceeded(c)
    \/ \E c \in Callers : RecordSpendAcquire(c)
    \/ \E c \in Callers : RecordSpendAppend(c)
    \/ \E d \in TickSteps : Tick(d)

SpecAmounts == Init /\ [][AmountsNext]_vars

\* SpecLedger: concurrent callers of every operation of one BudgetManager.
LedgerInit ==
    /\ InitBudget
    /\ InitRetryUnused
    /\ InitWebhook
    /\ InitMiddlewareUnused
    /\ InitClientUnused
    /\ Z402ClientInit(FALSE)
    /\ InitSession
    /\ InitLoop
    /\ InitHeadersUnused
    /\ InitReads

SpecLedger == LedgerInit /\ [][LedgerNext]_vars

\* SpecLedgerFair: the same callers under a fair scheduler.  The event loop
\* runs every task that is ready, and asyncio.Lock wakes its waiters first
\* come, first served, so a caller that keeps finding the lock taken is
\* given it in the end.
AcquireStep(c) ==
    \/ CanSpendAcquire(c)
    \/ RaiseAcquire(c)
    \/ RecordSpendAcquire(c)
    \/ ReadAcquire(c)
    \/ ResetAcquire(c)

BodyStep(c) ==
    \/ CanSpendBody(c)
    \/ RaiseBudgetExceeded(c)
    \/ RecordSpendAppend(c)
    \/ ReadDaily(c)
    \/ ReadHourly(c)
    \/ ReadHistory(c)
    \/ ResetBody(c)

FairScheduling ==
    \A c \in Callers : WF_vars(BodyStep(c)) /\ SF_vars(AcquireStep(c))

SpecLedgerFair == SpecLedger /\ FairScheduling

\* SpecRetry: one operation wrapped by retry_with_backoff.
RetryInit == InitLedgerUnused /\ InitRetry /\ InitWebhook /\ InitMiddlewareUnused /\ InitClientUnused
    /\ InitPayUnused
    /\ InitSession
    /\ InitLoop
    /\ InitReads
    /\ InitHeadersUnused

SpecRetry == RetryInit /\ [][RetryNext]_vars

\* SpecWebhook: one webhook delivery.
WebhookInit == InitLedgerUnused /\ InitRetryUnused /\ InitWebhook /\ InitMiddlewareUnused /\ InitClientUnused
    /\ InitPayUnused
    /\ InitSession
    /\ InitLoop
    /\ InitReads
    /\ InitHeadersUnused

SpecWebhook == WebhookInit /\ [][WebhookNext]_vars

\* SpecReplay: one delivery that the receiver verifies again and again, as
\* the clock moves and the header is or is not altered, under the eyes of an
\* observer who notes one of the earlier calls.
ReplayPayloads == { Payload("dict", D1), Payload("str", Dumps(D1)) }
ReplayVerifyPayloads == ReplayPayloads \cup { Payload("dict", D2) }
ReplaySecrets == { <<"k">>, <<"j">> }
ReplayTolerances == { 1, DefaultTolerance }
ReplayTamperKinds == { "bad_mac", "refresh_t", "swap" }

ReplayNext ==
    \/ \E p \in ReplayPayloads : Construct(p, <<"k">>, 0)
    \/ \E kind \in ReplayTamperKinds : Tamper(kind)
    \/ \E d \in ClockSteps : Advance(d)
    \/ \E p \in ReplayVerifyPayloads, s \in ReplaySecrets,
          tol \in ReplayTolerances : Verify(p, s, tol)
    \/ \E note \in BOOLEAN : HandledObserved(note)

SpecReplay == WebhookInit /\ [][ReplayNext]_vars

\* SpecGate: requests to an application behind a Z402Middleware.
GateInit ==
    /\ InitLedgerUnused
    /\ InitRetryUnused
    /\ InitWebhook
    /\ InitClientUnused
    /\ InitPayUnused
    /\ InitSession
    /\ InitLoop
    /\ InitReads
    /\ InitHeadersUnused
    /\ \E paths \in ProtectedPathSets, required \in RequiredAmounts :
            Z402MiddlewareInit(paths, required)

SpecGate == GateInit /\ [][MiddlewareNext]_vars

\* SpecBackoff: one request whose attempts succeed or fail with a retryable
\* error that carries no server-provided retry-after, under up to
\* MaxBackoffRetries retries.
BackoffResponses ==
    { Response(s, Body("dict", "dict", "absent"), Header(FALSE, <<>>)) :
        s \in {200, 429, 503} }

BackoffInit ==
    /\ InitLedgerUnused
    /\ \E n \in 0..MaxBackoffRetries, cap \in MaxDelays : RetryWrapperInit(n, cap)
    /\ InitWebhook
    /\ InitMiddlewareUnused
    /\ InitClientUnused
    /\ InitPayUnused
    /\ InitSession
    /\ InitLoop
    /\ InitReads
    /\ InitHeadersUnused

BackoffNext ==
    \/ \E resp \in BackoffResponses : AttemptResponse(resp)
    \/ \E f \in TransportFailures : AttemptTransportFailure(f)
    \/ Wake

SpecBackoff == BackoffInit /\ [][BackoffNext]_vars

\* SpecRequest: one request of a client constructed with max_retries in
\* 0..MaxRetries; request is decorated with retry_with_backoff() (http.py 130).
RequestInit ==
    /\ InitLedgerUnused
    /\ InitRetryUnused
    /\ InitWebhook
    /\ InitMiddlewareUnused
    /\ \E n \in 0..MaxRetries : AsyncHTTPClientInit(n)
    /\ InitPayUnused
    /\ InitSession
    /\ InitLoop
    /\ InitReads
    /\ InitHeadersUnused

SpecRequest == RequestInit /\ [][RequestNext]_vars

\* SpecResponses: one request of an AsyncHTTPClient (request under
\* retry_with_backoff(), http.py 130) over every response and transport
\* failure of the model.
ResponsesNext ==
    \/ \E resp \in Responses : AttemptResponse(resp)
    \/ \E f \in TransportFailures : AttemptTransportFailure(f)
    \/ Wake

SpecResponses == WebhookInit /\ [][ResponsesNext]_vars

\* SpecHeaders: the headers of the requests of one client, over the headers
\* its callers supply.
HeadersInit ==
    /\ InitLedgerUnused
    /\ InitRetryUnused
    /\ InitWebhook
    /\ InitMiddlewareUnused
    /\ InitClientUnused
    /\ InitPayUnused
    /\ InitSession
    /\ InitLoop
    /\ InitReads
    /\ \E key \in ApiKeys : InitHeaders(key)
    /\ InitSession
    /\ InitLoop

HeadersNext == \E custom \in CustomHeaders : BuildHeaders(custom)

SpecHeaders == HeadersInit /\ [][HeadersNext]_vars

\* SpecLoop: two requests of one client and a caller of the budget manager,
\* run by one event loop.
SpecLoop == WebhookInit /\ [][LoopNext]_vars

\* SpecCancel: one request that its caller may cancel during a wait.
CancelNext ==
    \/ RequestNext
    \/ Cancel

SpecCancel == RequestInit /\ [][CancelNext]_vars

\* SpecSession: one client used as a context manager, and one request
\* issued inside the context.
SpecSession == WebhookInit /\ [][SessionNext]_vars

\* SpecPay: concurrent pay calls, one per caller, of one Z402Client with or
\* without a budget manager.
PayInit ==
    /\ InitBudget
    /\ InitRetryUnused
    /\ InitWebhook
    /\ InitMiddlewareUnused
    /\ InitClientUnused
    /\ \E budget \in BOOLEAN : Z402ClientInit(budget)
    /\ InitSession
    /\ InitLoop
    /\ InitReads
    /\ InitHeadersUnused

SpecPay == PayInit /\ [][PayNext]_vars

-----------------------------------------------------------------------------
(* The spend ledger: claims C1-C3, checked under Spec *)

DailySpent == WindowSum(_transactions, now - DAY)
HourlySpent == WindowSum(_transactions, now - HOUR)

\* C1: no overspend.  In every state the amounts recorded inside the trailing
\* 24 hours sum to at most daily_limit and, when an hourly limit is
\* configured, those inside the trailing hour to at most hourly_limit.
C1_NoOverspend ==
    /\ DailySpent <= daily_limit
    /\ (hourly_limit # None => HourlySpent <= hourly_limit)

\* C2: record_spend checks and appends in one critical section.  From the
\* affordability check of a record_spend call to its append, the ledger is
\* the one the check read: no other caller's operation took effect between.
C2_CheckAndAppendAtomic ==
    \A c \in Callers :
        pc[c] \in {"rs_lock", "rs_append"} => _transactions = checked[c]

\* Whether one more spend of `amount` fits the budget left by the ledger.
StillFits(amount) ==
    /\ (transaction_limit # None => amount <= transaction_limit)
    /\ DailySpent + amount <= daily_limit
    /\ (hourly_limit # None => HourlySpent + amount <= hourly_limit)

\* Every caller has made one call, a record_spend, all at the same clock
\* reading, and every call has ended.
AllSpendsEnded ==
    /\ calls = NumCallers
    /\ ticks = 0
    /\ \A c \in Callers : pc[c] = "done" /\ op[c] = "record_spend"

\* C3: race freedom.  When concurrently launched record_spend calls have all
\* ended, the accepted amounts do not overshoot a limit, and no rejected call
\* would still fit the budget that is left.
C3_ConcurrentSpendsFit ==
    AllSpendsEnded =>
        /\ DailySpent <= daily_limit
        /\ (hourly_limit # None => HourlySpent <= hourly_limit)
        /\ \A c \in Callers :
              result[c] = "BudgetExceededError" => ~StillFits(spend_amount[c])

-----------------------------------------------------------------------------
(* The retry loop and the response classification: claims C4-C6, checked    *)
(* under SpecRetry                                                          *)

AllRetryable(errs) == \A i \in 1..Len(errs) : is_retryable_error(errs[i])

\* C4: retry termination.  The operation is never attempted more than
\* max_retries + 1 times; a non-retryable error on the first attempt ends the
\* loop after that one attempt; when every attempt fails with a retryable
\* error the loop makes exactly max_retries + 1 attempts and then raises the
\* error of the last one.
C4_RetryTermination ==
    /\ attempts <= max_retries + 1
    /\ (errors # <<>> /\ ~is_retryable_error(errors[1]))
            => (attempts = 1 /\ rpc = "raised")
    /\ (rpc = "raised" /\ AllRetryable(errors))
            => (attempts = max_retries + 1 /\ last_error = errors[Len(errors)])
    /\ (Len(errors) = max_retries + 1 /\ AllRetryable(errors))
            => rpc = "raised"

C4_Witness ==
    /\ rpc = "raised"
    /\ max_retries >= 2
    /\ attempts = max_retries + 1
    /\ AllRetryable(errors)

\* The classification the claim gives: network and rate-limit errors and
\* errors with a 5xx status are retryable, no others.
ClaimedRetryable(error) ==
    \/ error.cls \in {"NetworkError", "RateLimitError"}
    \/ error.status_code \in 500..599

NeverRetried ==
    {"AuthenticationError", "InvalidRequestError", "NotFoundError",
     "PaymentRequiredError", "BudgetExceededError",
     "WebhookVerificationError"}

\* C5: retry when and only when the error is retryable.  is_retryable_error
\* agrees with the claimed classification on every error an attempt raises;
\* every attempt that was followed by a wait or another attempt raised a
\* retryable error, and a loop that raised with attempts left raised a
\* non-retryable one.
C5_RetryIffRetryable ==
    /\ \A i \in 1..Len(errors) :
          /\ is_retryable_error(errors[i]) <=> ClaimedRetryable(errors[i])
          /\ errors[i].cls \in NeverRetried => ~is_retryable_error(errors[i])
    /\ \A i \in 1..(Len(errors) - 1) : ClaimedRetryable(errors[i])
    /\ (rpc = "sleep" => ClaimedRetryable(last_error))
    /\ (rpc = "raised" /\ attempt < max_retries) => ~ClaimedRetryable(last_error)

C5_Witness ==
    /\ rpc = "raised"
    /\ Len(errors) = 3
    /\ errors[1] = APIError(500)
    /\ errors[2].cls = "RateLimitError"
    /\ errors[3] = PaymentRequiredError(BodyAmount, BodyResource)

\* A body of the documented shape: a JSON object whose "error" and "payment"
\* members, when present, are objects; or text; or nothing.
DocumentedBody(body) ==
    /\ body.kind \in {"dict", "text", "empty"}
    /\ body.error \in {"absent", "dict"}
    /\ body.payment \in {"absent", "dict"}

\* C6: the classification table.  The error an attempt raises for a response
\* that is not ok is the one the table gives for its status: 400
\* invalid_request, 401 authentication_error, 402 payment_required with the
\* amount and resource of the body, 404 not_found, 429 rate_limit with the
\* retry-after value of the header, any other status api_error with that
\* status, retryable exactly when it is 5xx.
C6_ClassificationTable ==
    (response # NoResponse /\ ~ResponseOk(response)
     /\ DocumentedBody(response.body)) =>
        LET st == response.status
            e == last_error
        IN CASE st = 400 -> e.cls = "InvalidRequestError"
             [] st = 401 -> e.cls = "AuthenticationError"
             [] st = 402 ->
                    /\ e.cls = "PaymentRequiredError"
                    /\ (response.body.payment = "dict" =>
                            e.amount = BodyAmount /\ e.resource = BodyResource)
             [] st = 404 -> e.cls = "NotFoundError"
             [] st = 429 ->
                    /\ e.cls = "RateLimitError"
                    /\ (response.retry_after.present
                        /\ IsIntText(response.retry_after.value)) =>
                            e.retry_after = ParseInt(response.retry_after.value)
             [] OTHER ->
                    /\ e.cls = "APIError"
                    /\ e.status_code = st
                    /\ is_retryable_error(e) <=> (500 <= st /\ st <= 599)

-----------------------------------------------------------------------------
(* Webhook verification: claims C7-C10, checked under SpecWebhook           *)

\* verify_webhook was called with the payload and the secret the sender
\* signed, on the header as constructed, at the time of its construction.
VerifiedAsConstructed ==
    /\ v_result # NoOutcome
    /\ signed # NoSigned
    /\ tamper = "none"
    /\ v_payload = signed.payload
    /\ v_secret = signed.secret
    /\ v_now = signed.timestamp

\* The payload verify_webhook hands back: a dict as given, a text decoded.
Returned(payload) ==
    IF payload.type = "dict" THEN payload.value ELSE Loads(payload.value)

\* C7 as stated: for any payload and any secret,
\* verify_webhook(payload, construct_webhook_signature(payload, secret),
\* secret), checked at the time of construction, returns the payload.
C7_RoundTrip ==
    VerifiedAsConstructed =>
        (v_result.kind = "event" /\ v_result.event = Returned(v_payload))

\* C7 as amended: the round trip succeeds, and returns the payload, for every
\* dict and every text that json.loads decodes, under every non-empty secret
\* and every tolerance that is not negative.
C7_RoundTripAmended ==
    (/\ VerifiedAsConstructed
     /\ v_secret # <<>>
     /\ v_tolerance >= 0
     /\ (v_payload.type = "str" => ~LoadsRaises(v_payload.value))) =>
        (v_result.kind = "event" /\ v_result.event = Returned(v_payload))

C7_Witness ==
    /\ VerifiedAsConstructed
    /\ v_payload = Payload("dict", D1)
    /\ v_secret = <<"k">>
    /\ v_result = Outcome("event", "", D1)

\* C8: authenticity.  verify_webhook returns an event only if the v1 value of
\* the header is the HMAC-SHA256, under the secret given, of the header's
\* timestamp, a dot and the canonical payload; so a header constructed for
\* another canonical payload, another secret or another timestamp is never
\* accepted.
C8_Authenticity ==
    v_result.kind = "event" =>
        LET h == ParseHeader(header) IN
        /\ h.ok
        /\ IsIntText(h.timestamp_str)
        /\ h.provided_signature =
              HmacSha256Hex(v_secret,
                  IntToStr(ParseInt(h.timestamp_str)) \o <<".">>
                  \o PayloadString(v_payload))
        /\ signed # NoSigned
        /\ v_secret = signed.secret
        /\ ParseInt(h.timestamp_str) = signed.timestamp
        /\ PayloadString(v_payload) = PayloadString(signed.payload)

\* An authentic header, altered in its layout only, is accepted.
C8_Witness ==
    /\ v_result.kind = "event"
    /\ tamper = "zero_pad"
    /\ v_payload = Payload("bytes", Dumps(D1))
    /\ signed.payload = Payload("dict", D1)

\* The latest call got as far as the freshness check: header and secret were
\* not empty and the header held a v1= part and a t= part with an integer.
ReachedFreshnessCheck ==
    /\ v_result # NoOutcome
    /\ header # <<>>
    /\ v_secret # <<>>
    /\ ParseHeader(header).ok
    /\ IsIntText(ParseHeader(header).timestamp_str)

HeaderAge == v_now - ParseInt(ParseHeader(header).timestamp_str)

\* C9: freshness.  verify_webhook fails with the freshness error exactly when
\* the header's timestamp is more than the tolerance away from the time of the
\* call, in the past or in the future.
C9_Freshness ==
    ReachedFreshnessCheck =>
        ((HeaderAge > v_tolerance \/ 0 - HeaderAge > v_tolerance)
            <=> v_result = Raise("Signature timestamp too old"))

\* A correctly signed header, 400 seconds old, is rejected under the default
\* tolerance.
C9_Witness ==
    /\ v_result = Raise("Signature timestamp too old")
    /\ tamper = "none"
    /\ v_payload = signed.payload
    /\ v_secret = signed.secret
    /\ v_tolerance = DefaultTolerance
    /\ v_now - signed.timestamp = 400

\* C10: verify_webhook fails closed.  A call ends in the parsed event or in a
\* WebhookVerificationError, and in nothing else.
C10_FailsClosed ==
    v_result.kind \in {"none", "event", "WebhookVerificationError"}

\* The comma-separated parts of the header that start with `prefix`.
Components(prefix) ==
    LET parts == Split(header, ",")
    IN { i \in 1..Len(parts) : StartsWith(parts[i], prefix) }

\* The text after the = of the header's first t= part.
TimestampText ==
    LET parts == Split(header, ",")
        i == CHOOSE j \in Components(<<"t", "=">>) :
                \A k \in Components(<<"t", "=">>) : j <= k
    IN SubSeq(parts[i], 3, Len(parts[i]))

\* The input of the latest call is one verify_webhook must refuse unseen.
InvalidInput ==
    \/ header = <<>>
    \/ v_secret = <<>>
    \/ Components(<<"t", "=">>) = {}
    \/ Components(<<"v", "1", "=">>) = {}
    \/ ~IsIntText(TimestampText)

ValidationMessages ==
    { "Missing signature header", "Webhook secret not provided",
      "Invalid signature format", "Invalid timestamp in signature" }

\* C11: input validation.  A call with an empty header, an empty secret, a
\* header without a t= part or without a v1= part, or a t= value that is no
\* integer ends in a WebhookVerificationError of the validation, whatever the
\* payload and the MAC are: the payload is not decoded, no MAC is computed or
\* compared.
C11_InputValidation ==
    (v_result # NoOutcome /\ InvalidInput) =>
        /\ v_result.kind = "WebhookVerificationError"
        /\ v_result.message \in ValidationMessages

\* A header with a malformed timestamp is refused although the payload could
\* not even be decoded.
C11_Witness ==
    /\ tamper = "bad_t"
    /\ v_secret = <<"k">>
    /\ v_payload = Payload("bytes", <<BadByte>>)
    /\ v_result = Raise("Invalid timestamp in signature")

-----------------------------------------------------------------------------
(* The spend ledger: claims C12-C16, checked under Spec *)

\* Whether `amount` is affordable on the ledger `txs` at time t, as the
\* limits are configured.
Affordable(amount, txs, t) ==
    /\ (transaction_limit # None => amount <= transaction_limit)
    /\ WindowSum(txs, t - DAY) + amount <= daily_limit
    /\ (hourly_limit # None => WindowSum(txs, t - HOUR) + amount <= hourly_limit)

\* The step in which a can_spend call of caller c returns: the end of its
\* critical section, or the per-transaction check that answers at once.
CanSpendReturns(c) ==
    \/ (op[c] = "can_spend" /\ CanSpendBody(c))
    \/ \E a \in Amounts : Call(c, "can_spend", a) /\ pc'[c] = "done"

\* C12: can_spend(amount) returns true exactly when the amount does not
\* exceed the per-transaction limit, if one is configured, the trailing
\* 24-hour sum plus the amount is at most daily_limit and, if an hourly limit
\* is configured, the trailing 1-hour sum plus the amount is at most
\* hourly_limit; a spend that brings a sum exactly to its limit is affordable.
C12_CanSpendExact ==
    [][\A c \in Callers :
          CanSpendReturns(c) =>
              (result'[c] = "True"
                  <=> Affordable(spend_amount'[c], _transactions, now))]_vars

\* A step of can_spend run by caller c, called directly or by record_spend
\* (line 113): its entry with the per-transaction check, the taking of the
\* lock, the critical section.
CanSpendStep(c) ==
    \/ \E a \in Amounts : Call(c, "can_spend", a)
    \/ CanSpendAcquire(c)
    \/ CanSpendBody(c)

\* C13: can_spend is a pure query.  No step of can_spend, whatever it
\* returns, changes the ledger's records or the configured limits.
C13_CanSpendPure ==
    [][\A c \in Callers :
          CanSpendStep(c) => UNCHANGED <<_transactions, limits>>]_vars

\* can_spend has answered true on a ledger that holds a record, and the
\* ledger still holds that one record.
C13_Witness ==
    \E c \in Callers :
        /\ op[c] = "can_spend"
        /\ pc[c] = "done"
        /\ result[c] = "True"
        /\ Len(_transactions) = 1
        /\ checked[c] = _transactions

\* C14: the per-transaction limit.  When one is configured, whatever its
\* value, no can_spend call answers true and no record_spend call is accepted
\* for an amount above it, so no record of the ledger has an amount above it.
C14_TransactionLimit ==
    transaction_limit # None =>
        /\ \A c \in Callers :
              (pc[c] = "done" /\ result[c] \in {"True", "ok"})
                  => spend_amount[c] <= transaction_limit
        /\ \A i \in 1..Len(_transactions) :
              _transactions[i].amount <= transaction_limit

\* The step in which record_spend of caller c learns whether the spend is
\* affordable: its entry, when the per-transaction check refuses at once, or
\* the end of the critical section of the can_spend it calls.
RecordSpendChecks(c) ==
    \/ \E a \in Amounts : Call(c, "record_spend", a) /\ pc'[c] # "cs_lock"
    \/ (op[c] = "record_spend" /\ CanSpendBody(c))

\* A step of record_spend on its way to raising: get_daily_spent, the raise.
RecordSpendRaises(c) == RaiseAcquire(c) \/ RaiseBudgetExceeded(c)

\* C15: a record_spend call whose amount would exceed a configured limit
\* (per-transaction, hourly or daily) fails with BudgetExceededError and
\* leaves the ledger as it was: from the check to the raise no record is
\* appended, removed or changed.
C15_RejectedSpendLeavesLedger ==
    [][\A c \in Callers :
          /\ (\E a \in Amounts :
                /\ Call(c, "record_spend", a)
                /\ transaction_limit # None
                /\ a > transaction_limit) => pc'[c] = "rs_raise_lock"
          /\ (RecordSpendChecks(c)
              /\ ~Affordable(spend_amount'[c], _transactions, now))
                => (pc'[c] = "rs_raise_lock" /\ UNCHANGED _transactions)
          /\ RecordSpendRaises(c) => UNCHANGED _transactions
          /\ RaiseBudgetExceeded(c) =>
                (result'[c] = "BudgetExceededError" /\ pc'[c] = "done")]_vars

\* C16: the hourly limit binds independently of the daily limit.  A
\* record_spend whose amount fits the daily limit but would take the trailing
\* 1-hour sum above a configured hourly_limit is rejected.
C16_HourlyLimitBinds ==
    [][\A c \in Callers :
          (/\ RecordSpendChecks(c)
           /\ hourly_limit # None
           /\ WindowSum(_transactions, now - DAY) + spend_amount'[c]
                  <= daily_limit
           /\ WindowSum(_transactions, now - HOUR) + spend_amount'[c]
                  > hourly_limit)
              => pc'[c] = "rs_raise_lock"]_vars

-----------------------------------------------------------------------------
(* The waits of the retry loop: claims C17-C18 *)

RECURSIVE Pow(_, _)
Pow(b, e) == IF e = 0 THEN 1 ELSE b * Pow(b, e - 1)

\* C17: the backoff schedule, checked under SpecBackoff.  When every failure
\* is a retryable error without a server-provided retry-after, the wait
\* before the k-th retry is
\* min(initial_delay * backoff_multiplier^(k-1), max_delay): 1, 2, 4, 8, 16,
\* 30, 30 under max_delay 30; no wait exceeds max_delay.
C17_BackoffSchedule ==
    \A k \in 1..Len(sleeps) :
        /\ sleeps[k] = Min(initial_delay * Pow(backoff_multiplier, k - 1),
                           max_delay)
        /\ sleeps[k] <= max_delay

C17_Witness ==
    /\ max_delay = 30
    /\ sleeps = <<1, 2, 4, 8, 16, 30, 30>>
    /\ rpc = "raised"

\* C18: the rate-limit wait, checked under SpecRetry.  When an attempt fails
\* with a rate-limit error that carries a server-provided retry-after value
\* r >= 0 and attempts remain, the wait before the next attempt is
\* min(r, max_delay), whatever the geometric delay has grown to.
C18_RateLimitWait ==
    (/\ rpc = "sleep"
     /\ last_error.cls = "RateLimitError"
     /\ last_error.retry_after # None
     /\ last_error.retry_after >= 0) =>
        /\ delay = Min(last_error.retry_after, max_delay)
        /\ sleeps[Len(sleeps)] = Min(last_error.retry_after, max_delay)

-----------------------------------------------------------------------------
(* One request and the facilitator: claims C19-C20, checked under           *)
(* SpecRequest                                                              *)

\* C19: retrying never double-charges.  Over all the attempts of one request
\* the facilitator applies the request's effect at most once, also when an
\* attempt times out or fails in transport after the facilitator has taken it.
C19_AppliedAtMostOnce == applied <= 1

\* C20: the client's max_retries bounds the retries of its requests.  A
\* request of a client constructed with max_retries = n is attempted at most
\* n + 1 times.
C20_ClientMaxRetriesBounds == attempts <= http_max_retries + 1

-----------------------------------------------------------------------------
(* Z402Client.pay: claim C21, checked under SpecPay *)

\* pay's own budget check answered no.
PayCheckFailed(c) ==
    /\ pay_pc[c] = "check"
    /\ pay_outcome[c] = "raised"

\* The ledger holds a record of caller c's payment.
Recorded(c) ==
    \E i \in 1..Len(_transactions) : _transactions[i].transaction_id = c

\* The facilitator was sent caller c's payment.
Submitted(c) ==
    \E i \in 1..Len(submitted) : submitted[i].transaction_id = c

\* C21: a pay call whose budget check fails raises BudgetExceededError and
\* has created no payment intent, submitted no payment and recorded no spend.
C21_PayRejectsOverBudget ==
    \A c \in Callers :
        PayCheckFailed(c) =>
            /\ pay_error[c] = BudgetExceededError
            /\ ~created[c]
            /\ ~Submitted(c)
            /\ ~Recorded(c)

\* What holds of the code: the same, with ValueError raised.
C21_PayRejectsWithValueError ==
    \A c \in Callers :
        PayCheckFailed(c) =>
            /\ pay_error[c] = PythonError("ValueError")
            /\ ~created[c]
            /\ ~Submitted(c)
            /\ ~Recorded(c)

-----------------------------------------------------------------------------
(* Error propagation of the retry loop: claim C22, checked under SpecRetry *)

\* C22: when the loop stops without success, the error raised is the error
\* of the last attempt made; a non-retryable error is raised at the attempt
\* where it occurs, after retryable errors only and with no wait after it;
\* a retryable error is raised only from attempt max_retries + 1.
C22_LastErrorPropagates ==
    rpc = "raised" =>
        /\ Len(errors) = attempts
        /\ attempts >= 1
        /\ last_error = errors[attempts]
        /\ \A i \in 1..(attempts - 1) : is_retryable_error(errors[i])
        /\ Len(sleeps) = attempts - 1
        /\ (is_retryable_error(last_error) => attempts = max_retries + 1)

\* A non-retryable error raised at the third attempt, after two retryable
\* errors that differ from it and from each other.
C22_Witness ==
    /\ rpc = "raised"
    /\ attempts = 3
    /\ ~is_retryable_error(last_error)
    /\ errors[1] # errors[2]
    /\ errors[2] # last_error
    /\ Len(sleeps) = 2

-----------------------------------------------------------------------------
(* The error taxonomy at the caller: claim C23, checked under SpecResponses *)

\* The kinds a failed request may surface as.
RequestErrorClasses ==
    {"InvalidRequestError", "AuthenticationError", "PaymentRequiredError",
     "NotFoundError", "RateLimitError", "APIError", "NetworkError"}

\* C23: every failure of request reaches the caller as a classified error;
\* a response that is not ok is never returned as a result.
C23_FailuresClassified ==
    /\ (rpc = "raised" => last_error.cls \in RequestErrorClasses)
    /\ (rpc = "returned" => ResponseOk(response))

\* Every error an attempt raises is one of the taxonomy, or an
\* AttributeError or ValueError raised inside _handle_response; no response
\* that is not ok is returned.
C23_FailuresSurface ==
    /\ \A i \in 1..Len(errors) :
          errors[i].cls \in RequestErrorClasses \cup {"AttributeError", "ValueError"}
    /\ (rpc = "raised" => last_error = errors[Len(errors)])
    /\ (rpc = "returned" => ResponseOk(response))

-----------------------------------------------------------------------------
(* Request headers: claim C24, checked under SpecHeaders *)

\* A request has been built.
HeadersBuilt == request_headers # EmptyDict

\* C24: every request carries the API-key header with the client's key,
\* Content-Type: application/json and the client's user-agent, whatever
\* headers the caller supplied; those only add headers.
C24_RequiredHeaders ==
    HeadersBuilt =>
        /\ DOMAIN RequiredHeaders(api_key) \subseteq DOMAIN request_headers
        /\ \A n \in DOMAIN RequiredHeaders(api_key) :
              request_headers[n] = RequiredHeaders(api_key)[n]

\* What holds of the code: the three required names are always present, each
\* with the required value unless the caller supplied that name, and every
\* supplied header is passed on as given.
C24_RequiredUnlessSupplied ==
    HeadersBuilt =>
        /\ DOMAIN request_headers =
              DOMAIN RequiredHeaders(api_key) \cup DOMAIN custom_headers.dict
        /\ \A n \in DOMAIN request_headers :
              request_headers[n] =
                  IF n \in DOMAIN custom_headers.dict
                  THEN custom_headers.dict[n]
                  ELSE RequiredHeaders(api_key)[n]

-----------------------------------------------------------------------------
(* The ledger's reads and its history: claims C25-C27, checked under        *)
(* SpecLedger                                                               *)

\* The statistics of one ledger state: those of the records `seen.ledger` at
\* the time `seen.time`.
StatisticsOf(seen) ==
    Statistics(WindowSum(seen.ledger, seen.time - DAY),
               WindowSum(seen.ledger, seen.time - HOUR))

\* Caller c's call of `method` has returned.
Ended(c, method) == op[c] = method /\ pc[c] = "done"

\* C25: get_statistics never observes a torn state.  What it returns is the
\* statistics of one ledger state it saw, also with record_spend calls of
\* other callers interleaved: daily_remaining is daily_limit - daily_spent,
\* and hourly_spent, a sum over records that daily_spent counts too, is not
\* above it.
C25_StatisticsOfOneState ==
    \A c \in Callers :
        Ended(c, "get_statistics") =>
            /\ \E i \in 1..Len(reads[c]) : stats[c] = StatisticsOf(reads[c][i])
            /\ ParseInt(stats[c]["daily_remaining"]) =
                  daily_limit - ParseInt(stats[c]["daily_spent"])
            /\ ("hourly_spent" \in DOMAIN stats[c] =>
                  ParseInt(stats[c]["hourly_spent"])
                      <= ParseInt(stats[c]["daily_spent"]))

\* What holds of the code: each of the two sums is the sum of one ledger
\* state the call saw, and daily_remaining is derived from the daily sum
\* returned.
C25_EachSumOfOneState ==
    \A c \in Callers :
        Ended(c, "get_statistics") =>
            /\ Len(reads[c]) = 2
            /\ stats[c]["daily_spent"] =
                  StatisticsOf(reads[c][1])["daily_spent"]
            /\ ("hourly_spent" \in DOMAIN stats[c] =>
                  stats[c]["hourly_spent"] =
                      StatisticsOf(reads[c][2])["hourly_spent"])
            /\ ParseInt(stats[c]["daily_remaining"]) =
                  daily_limit - ParseInt(stats[c]["daily_spent"])

\* A step in which caller c's record_spend succeeds.
RecordSpendSucceeds(c) ==
    /\ op[c] = "record_spend"
    /\ pc[c] = "rs_append"
    /\ pc'[c] = "done"
    /\ result'[c] = "ok"

\* A step in which caller c's reset_history takes effect.
ResetTakesEffect(c) ==
    /\ op[c] = "reset_history"
    /\ pc[c] = "rh_body"
    /\ pc'[c] = "done"

\* C26: the ledger is append-only.  It starts empty; a step that changes it
\* is a successful record_spend, which puts one record with its amount and
\* transaction id at the end and leaves the records before it as they were,
\* or a reset_history, which empties it; no step of can_spend,
\* get_statistics, get_daily_spent, get_hourly_spent or
\* get_transaction_history changes it.
C26_AppendOnly ==
    /\ _transactions = <<>>
    /\ [][ \/ _transactions' = _transactions
           \/ \E c \in Callers :
                /\ RecordSpendSucceeds(c)
                /\ _transactions' =
                      Append(_transactions,
                             SpendRecord(spend_amount[c], c, now))
           \/ \E c \in Callers :
                /\ ResetTakesEffect(c)
                /\ _transactions' = <<>>
         ]_vars

\* A second record has been appended after a first that was recorded more
\* than a day before, and both are in the ledger.
C26_Witness ==
    /\ Len(_transactions) = 2
    /\ _transactions[1].timestamp < _transactions[2].timestamp - DAY
    /\ \A c \in Callers : Ended(c, "record_spend") /\ result[c] = "ok"

\* C27: get_transaction_history(hours) returns exactly the records of the
\* ledger whose timestamp is >= now - hours, in the order of the ledger, and
\* leaves the ledger as it is.
C27_HistoryWindow ==
    [][ \A c \in Callers :
          (pc[c] = "rd_body" /\ reading[c] = "history" /\ pc'[c] = "done") =>
              /\ history'[c] =
                    SelectSeq(_transactions,
                              LAMBDA tx : tx.timestamp >= now - hours[c])
              /\ _transactions' = _transactions
      ]_vars

\* A history that holds a record stamped exactly now - hours, returned from
\* a ledger that holds it.
C27_Witness ==
    \E c \in Callers :
        /\ Ended(c, "get_transaction_history")
        /\ hours[c] = HOUR
        /\ history[c] # <<>>
        /\ history[c] = _transactions
        /\ history[c][1].timestamp = now - HOUR

-----------------------------------------------------------------------------
(* Waits and the event loop: claim C28, checked under SpecLoop *)

\* One of the two requests is suspended in a backoff wait.
InBackoffWait == rpc = "sleep" \/ parked.rpc = "sleep"

\* C28: a backoff wait does not block other operations.  While a request is
\* in its wait the loop can turn to the other request, which, when it is the
\* one waiting, leaves the running request free to get the response of its
\* attempt and to wake from a wait of its own; and a ledger caller can start
\* a call, take the lock when it is free and finish the call.
C28_WaitDoesNotBlock ==
    InBackoffWait =>
        /\ (rpc = "sleep" => ENABLED Switch)
        /\ (rpc = "sleep" => ENABLED LoopWake)
        /\ (rpc = "call" =>
              \A resp \in RequestResponses : ENABLED LoopAttemptResponse(resp))
        /\ \A c \in LoopCallers :
              /\ (pc[c] \in {"idle", "done"} /\ calls < MaxCalls) =>
                    \A a \in Amounts : ENABLED LoopCall(c, "record_spend", a)
              /\ (pc[c] \notin {"idle", "done"}) => ENABLED LoopLedgerStep(c)

\* One request is in its first wait while the other has made its attempt
\* and returned and a record_spend of a ledger caller has completed.
C28_Witness ==
    /\ parked.rpc = "sleep"
    /\ parked.attempts = 1
    /\ rpc = "returned"
    /\ attempts = 1
    /\ \E c \in LoopCallers : Ended(c, "record_spend") /\ result[c] = "ok"

-----------------------------------------------------------------------------
(* Cancellation during a wait: claim C29, checked under SpecCancel *)

\* C29: a request cancelled in a backoff wait stops there.  It is cancelled
\* from a wait only, with every request it sent answered or failed; from
\* then on it sends nothing, makes no attempt and takes no wait: what has
\* gone out is what its completed attempts sent.
C29_CancelStopsLoop ==
    /\ [](rpc = "cancelled" =>
            /\ sends = attempts
            /\ Len(sleeps) = attempts)
    /\ [][ /\ (rpc' = "cancelled" /\ rpc # "cancelled") =>
                (rpc = "sleep" /\ sends' = sends /\ attempts' = attempts)
           /\ rpc = "cancelled" =>
                /\ rpc' = "cancelled"
                /\ sends' = sends
                /\ attempts' = attempts
                /\ errors' = errors
                /\ sleeps' = sleeps
         ]_vars

\* A request cancelled in its second wait, after two attempts of which the
\* facilitator applied one.
C29_Witness ==
    /\ rpc = "cancelled"
    /\ attempts = 2
    /\ sends = 2
    /\ applied = 1

-----------------------------------------------------------------------------
(* The session's lifecycle: claim C30, checked under SpecSession *)

\* The context has been left, normally or by an error.
ContextLeft == ctx \in {"exited", "raised"}

\* C30: every exit from the context closes the session, and once the context
\* has been left the client holds no open session.
C30_NoOpenSessionAfterExit ==
    ContextLeft => _session # "open"

\* What holds of the code: each exit, normal or by an error, leaves the
\* session closed at that moment.
C30_ExitClosesSession ==
    [][ (ctx = "inside" /\ ContextLeft') => _session' = "closed" ]_vars


-----------------------------------------------------------------------------
(* The geometric delay and the end of the loop: claims C31-C32, checked     *)
(* under SpecRetry                                                          *)

\* The error carries a server-provided retry-after value that line 87 takes
\* for one: a value of 0 is falsy there (claim C18), and a wait for it is
\* counted with the geometric ones.
HasRetryAfter(error) ==
    error.cls = "RateLimitError" /\ error.retry_after \notin {None, 0}

\* The waits before wait k that were not taken for such an error.
GeometricWaitsBefore(k) ==
    Cardinality({ j \in 1..(k - 1) : ~HasRetryAfter(errors[j]) })

\* C31: the geometric delay is changed only by non-rate-limit waits.  A wait
\* taken for a rate-limit error with a retry-after value leaves
\* current_delay unchanged, so the wait for an error without retry-after is
\* min(current_delay, max_delay) with current_delay equal to
\* initial_delay * backoff_multiplier^(number of earlier non-rate-limit
\* waits).
C31_GeometricDelayFrame ==
    \A k \in 1..Len(sleeps) :
        ~HasRetryAfter(errors[k]) =>
            sleeps[k] = Min(initial_delay
                              * Pow(backoff_multiplier, GeometricWaitsBefore(k)),
                            max_delay)

\* What the loop does instead: the wait for an error without a usable
\* retry-after is the previous wait, whatever it was taken for, times
\* backoff_multiplier and capped at max_delay; the first one is
\* min(initial_delay, max_delay).
C31_DelayFollowsPreviousWait ==
    \A k \in 1..Len(sleeps) :
        ~HasRetryAfter(errors[k])
            => sleeps[k] = Min(IF k = 1 THEN initial_delay
                               ELSE sleeps[k - 1] * backoff_multiplier,
                               max_delay)


\* The loop has ended by itself: wrapper returned or raised.
LoopEnded == rpc \in {"returned", "raised"}

\* C32: a successful attempt ends the operation at once.  The result of the
\* first successful attempt is returned, every attempt before it having
\* failed, with no further attempt and no further wait; when the loop has
\* ended the number of waits is the number of attempts minus one, so no wait
\* follows the final attempt.
C32_SuccessEndsAtOnce ==
    /\ [](rpc = "returned" =>
            /\ ResponseOk(response)
            /\ Len(errors) = attempts - 1
            /\ \A i \in 1..Len(errors) : is_retryable_error(errors[i]))
    /\ [](LoopEnded => Len(sleeps) = attempts - 1)
    /\ [][LoopEnded => UNCHANGED <<attempts, sleeps, response, rpc>>]_vars

\* A request that succeeded at its second attempt with another retry allowed.
C32_Witness ==
    /\ rpc = "returned"
    /\ attempts = 2
    /\ max_retries >= 2
    /\ sleeps = <<initial_delay>>


-----------------------------------------------------------------------------
(* The order of the ledger: claim C33, checked under Spec *)

-----------------------------------------------------------------------------
(* Paying under a budget: claims C34-C35, checked under SpecPay *)

\* pay has returned or raised.
PayEnded(c) == pay_outcome[c] # "pending"

\* The ledger holds the record of caller c's payment, with its amount.
RecordedAsPaid(c) ==
    \E i \in 1..Len(_transactions) :
        /\ _transactions[i].transaction_id = c
        /\ _transactions[i].amount = spend_amount[c]

\* C34: every payment that pay submits successfully while a budget manager
\* is attached is recorded in the ledger.  A pay call that has submitted its
\* payment to the facilitator ends with a ledger record for that payment's
\* amount and id, also when pay calls sharing one budget manager run
\* concurrently.
C34_SubmittedIsRecorded ==
    \A c \in Callers :
        (has_budget /\ Submitted(c) /\ PayEnded(c)) => RecordedAsPaid(c)

\* The same for calls that leave check_budget at its default, stated to see
\* that the default does not save the claim.
C34_CheckedSubmittedIsRecorded ==
    \A c \in Callers :
        (has_budget /\ check_budget[c] /\ Submitted(c) /\ PayEnded(c))
            => RecordedAsPaid(c)

\* What holds of the code: a pay call that submitted its payment and
\* returned has recorded it; one that submitted and raised raised
\* BudgetExceededError out of record_spend and left no record.
C34_ReturnedIsRecorded ==
    \A c \in Callers :
        (has_budget /\ Submitted(c) /\ PayEnded(c)) =>
            IF pay_outcome[c] = "returned" THEN RecordedAsPaid(c)
            ELSE pay_error[c] = BudgetExceededError /\ ~Recorded(c)


\* Every payment submitted so far came from a pay call with check_budget=True.
AllChecked == \A c \in Callers : Submitted(c) => check_budget[c]

\* C35: pay with check_budget=True never pays beyond the budget.  Over
\* concurrent pay calls sharing one budget manager, the total of the payments
\* submitted to the facilitator inside the trailing 24-hour window never
\* exceeds daily_limit, and inside the trailing hour never exceeds
\* hourly_limit when one is configured.  (An hourly limit of zero, which
\* can_spend takes for none, is left out here: claim C14.)
C35_PaysWithinBudget ==
    (has_budget /\ AllChecked) =>
        /\ WindowSum(submitted, now - DAY) <= daily_limit
        /\ Truthy(hourly_limit) =>
                WindowSum(submitted, now - HOUR) <= hourly_limit


-----------------------------------------------------------------------------
(* The ledger lock: claim C36, checked under SpecLedgerFair *)

\* Where a caller waits for the lock, and where it holds it.
LockRequests == {"cs_lock", "rs_raise_lock", "rs_lock", "rd_lock", "rh_lock"}
LockHeld == {"cs_body", "rs_raise", "rs_append", "rd_body", "rh_body"}

\* The caller is inside a call of the BudgetManager.
InCall(c) == pc[c] \notin {"idle", "done"}

\* C36: the ledger lock never deadlocks.  No operation of the BudgetManager
\* requests the lock while it holds it, the lock is released on every path
\* out of an operation, the rejection of record_spend included, and under
\* fair scheduling every one of the concurrent can_spend, record_spend,
\* get_statistics, get_transaction_history and reset_history calls
\* eventually completes.
C36_LockNeverDeadlocks ==
    /\ [](\A c \in Callers :
            /\ (_lock = c) <=> (pc[c] \in LockHeld)
            /\ pc[c] \in LockRequests => _lock # c
            /\ ~InCall(c) => _lock # c)
    /\ \A c \in Callers : InCall(c) ~> (pc[c] = "done")

\* A record_spend in its rejection path holds the lock while the other
\* caller waits for it.
C36_Witness ==
    \E c, d \in Callers :
        /\ pc[c] = "rs_raise"
        /\ _lock = c
        /\ pc[d] \in LockRequests


-----------------------------------------------------------------------------
(* Amounts and time: claims C37-C38, checked under SpecAmounts *)

\* C38: recording a spend never frees budget.  Every record accepted by
\* record_spend has a strictly positive amount, so the windowed sums are
\* never negative and a successful record_spend never decreases them (and so
\* never increases daily_remaining or hourly_remaining).
C38_RecordNeverFreesBudget ==
    /\ [](\A i \in 1..Len(_transactions) : _transactions[i].amount > 0)
    /\ [](/\ WindowSum(_transactions, now - DAY) >= 0
          /\ WindowSum(_transactions, now - HOUR) >= 0)
    /\ [][\A c \in Callers :
            RecordSpendAppend(c) =>
                /\ WindowSum(_transactions', now - DAY)
                      >= WindowSum(_transactions, now - DAY)
                /\ WindowSum(_transactions', now - HOUR)
                      >= WindowSum(_transactions, now - HOUR)]_vars

\* What holds of the code: an accepted record has the amount the caller
\* gave, whatever its sign, and changes each windowed sum by that amount.
C38_RecordAddsItsAmount ==
    [][\A c \in Callers :
            RecordSpendAppend(c) =>
                /\ _transactions'[Len(_transactions')].amount = spend_amount[c]
                /\ WindowSum(_transactions', now - DAY)
                      = WindowSum(_transactions, now - DAY) + spend_amount[c]
                /\ WindowSum(_transactions', now - HOUR)
                      = WindowSum(_transactions, now - HOUR) + spend_amount[c]]_vars


\* What can_spend(amount) answers on the ledger `txs` at time t (lines 65-94).
CanSpend(amount, txs, t) ==
    ~OverTransactionLimit(amount) /\ WithinWindows(txs, t, amount)

\* The clock advances and no ledger operation takes effect.
TimePasses == now' > now /\ _transactions' = _transactions

\* C37: budget recovers only by the passage of time.  With no ledger
\* operation in between, a windowed sum never grows as the clock advances, so
\* an amount for which can_spend is true stays affordable at every later
\* time, and a record no longer counts toward the daily (hourly) sum once its
\* timestamp is older than now - 24h (now - 1h).
C37_SumsNeverGrowWithTime ==
    /\ [][TimePasses =>
            /\ WindowSum(_transactions, now' - DAY)
                  <= WindowSum(_transactions, now - DAY)
            /\ WindowSum(_transactions, now' - HOUR)
                  <= WindowSum(_transactions, now - HOUR)
            /\ \A a \in AnyAmounts :
                  CanSpend(a, _transactions, now)
                      => CanSpend(a, _transactions, now')]_vars
    /\ [](/\ WindowSum(_transactions, now - DAY)
              = WindowSum(Since(_transactions, now - DAY), 0)
          /\ WindowSum(_transactions, now - HOUR)
              = WindowSum(Since(_transactions, now - HOUR), 0))

\* The same for the ledgers whose records are all positive.
AllPositive == \A i \in 1..Len(_transactions) : _transactions[i].amount > 0

C37_PositiveSumsNeverGrow ==
    [][(TimePasses /\ AllPositive) =>
            /\ WindowSum(_transactions, now' - DAY)
                  <= WindowSum(_transactions, now - DAY)
            /\ WindowSum(_transactions, now' - HOUR)
                  <= WindowSum(_transactions, now - HOUR)
            /\ \A a \in AnyAmounts :
                  CanSpend(a, _transactions, now)
                      => CanSpend(a, _transactions, now')]_vars

\* A spend of 2 that was rejected becomes acceptable with time alone: the
\* ledger holds what it held, nothing was reset, and the amount is affordable
\* now though it was not when the last record was written.
C37_RecoversByTime ==
    /\ _transactions # <<>>
    /\ AllPositive
    /\ ~CanSpend(2, _transactions, _transactions[Len(_transactions)].timestamp)
    /\ CanSpend(2, _transactions, now)


-----------------------------------------------------------------------------
(* verify_webhook keeps no state: claim C39, checked under SpecReplay *)

\* The call just made has the arguments of the earlier call the observer
\* noted.
SameArguments ==
    /\ v_result # NoOutcome
    /\ v_earlier # NoCall
    /\ v_payload = v_earlier.payload
    /\ header = v_earlier.signature
    /\ v_secret = v_earlier.secret
    /\ v_tolerance = v_earlier.tolerance

-----------------------------------------------------------------------------
(* The payment gate: claim C40, checked under SpecGate *)

\* __call__ has answered the request.
Answered == mw_pc = "done"

\* The request carries an intent id.
HasIntent == mw_request.payment_intent_id \notin {"None", ""}

\* The verification call came back with an intent: an ok response whose body
\* is a JSON object with a status and an amount, the amount of a settled
\* intent being a number.  Anything else is a failed verification call.
VerificationSucceeded ==
    /\ mw_reply.kind = "dict"
    /\ mw_reply.status # "absent"
    /\ mw_reply.amount.kind # "absent"
    /\ mw_reply.status = "settled" => mw_reply.amount.kind = "number"

\* The facilitator reports the intent settled with an amount not below the
\* required one.
SettledAndSufficient ==
    /\ VerificationSucceeded
    /\ mw_reply.status = "settled"
    /\ mw_reply.amount.value >= mw_amount

\* C40: the payment gate of the FastAPI middleware.  A request whose path
\* starts with a protected path reaches the wrapped handler only if it
\* carries a z402-payment-intent header whose intent the facilitator reports
\* as settled with an amount not below the required amount; without the
\* header, with an unsettled intent or with an insufficient amount the
\* response is 402, a failed verification call gives 500, and in none of
\* these cases is the handler invoked; requests to unprotected paths always
\* reach the handler.
C40_PaymentGate ==
    Answered =>
        IF ~IsProtected(mw_request.path) THEN mw_called
        ELSE /\ mw_called <=> (HasIntent /\ SettledAndSufficient)
             /\ ~HasIntent => mw_response.status_code = 402
             /\ (HasIntent /\ VerificationSucceeded /\ ~SettledAndSufficient)
                    => mw_response.status_code = 402
             /\ (HasIntent /\ ~VerificationSucceeded)
                    => mw_response.status_code = 500
             /\ mw_called => z402_payment = mw_reply

\* A request to /p/x under the protected path /p with a settled intent of
\* exactly the required amount has reached the handler.
C40_Witness ==
    /\ Answered
    /\ mw_request.path = <<"/", "p", "x">>
    /\ IsProtected(mw_request.path)
    /\ mw_reply.status = "settled"
    /\ mw_reply.amount = IntentAmount("number", mw_amount)
    /\ mw_called
    /\ mw_response = HandlerResponse

=============================================================================
